---- MODULE Spec2Model ----
(***************************************************************************)
(* State-machine model of components of the dojo repository:               *)
(*   - WorldRemote::from_events / WorldRemote::match_event                 *)
(*       crates/dojo/world/src/remote/events_to_remote.rs                  *)
(*   - Migration::migrate and its four phases                              *)
(*       crates/sozo/ops/src/migrate/mod.rs                                *)
(*   - repeated migrate runs against one world, each on the diff of the   *)
(*     local declaration and the remote state rebuilt by from_events       *)
(* Each component has its own specification over the shared variables: the *)
(* variables of the other components keep their initial values.            *)
(***************************************************************************)
EXTENDS Integers, Sequences, FiniteSets, TLC

VARIABLES
    world_remote,   \* the WorldRemote `self` that match_event mutates
    status,         \* position of the replay loop: "running" | "error" | "panic"
    last_ev,        \* the raw event handled by the most recent loop iteration
    last_changed,   \* whether that iteration changed world_remote
    n_events,       \* number of loop iterations so far
    expect_hist,    \* per selector: class hashes seen since its registration
    provider,       \* from_events: the pages the provider serves, in chain order
    requests,       \* from_events: number of get_events calls made
    returned,       \* from_events: what the call returned
    diff,           \* Migration.diff, the WorldDiff
    profile_config, \* Migration.profile_config
    pc,             \* migrate: the phase to run next, or "done" / "failed"
    phases,         \* migrate: the phases started so far, in order
    submitted,      \* migrate: the transactions sent to the network, in order
    result,         \* migrate: "none", "Manifest", or the error returned
    runs,           \* number of migrate runs started so far
    world_local,    \* the local declaration the differ is given
    transactions,   \* StarknetVMProcessor.transactions
    stats,          \* StarknetVMProcessor.stats
    declared_classes, \* the class hashes in StarknetVMProcessor.state.declared_classes
    block_context,  \* StarknetVMProcessor.executor.block_context
    exec_last,      \* executor: the most recent call, its input and what it returned
    n_submitted,    \* executor: number of transactions handed to it so far
    ledger,         \* the ledger state the processor holds: the transactions applied
    sim_last        \* executor: the simulate or estimate_fee call, if the last call was one

replay_vars == <<status, last_ev, last_changed, n_events, expect_hist>>
from_events_vars == <<provider, requests, returned>>
migrate_vars == <<diff, profile_config, pc, phases, submitted, result, runs, world_local>>

executor_vars == <<transactions, stats, declared_classes, block_context, exec_last, n_submitted,
                   ledger, sim_last>>

vars == <<world_remote, replay_vars, from_events_vars, migrate_vars, executor_vars>>

(***************************************************************************)
(* Bounds of the model.                                                    *)
(***************************************************************************)
MaxEvents == 3          \* events replayed in one behaviour
MaxClassHash == 2       \* class hashes are 1..MaxClassHash
MaxAddress == 2         \* grantee addresses are 1..MaxAddress
MaxPages == 2           \* pages of events the provider serves

ClassHashes == 1..MaxClassHash
Addresses == 1..MaxAddress

\* ByteArray payloads: namespace names, resource names and one payload that
\* is not valid UTF-8.
Namespaces == {"ns"}
Names == {"m", "c"}
BadBytes == "\\xff"

(***************************************************************************)
(* Small map helpers (HashMap / HashSet operations).                       *)
(***************************************************************************)
EmptyMap == [k \in {} |-> {}]

MapInsert(m, k, v) == [x \in (DOMAIN m) \cup {k} |-> IF x = k THEN v ELSE m[x]]

\* HashMap<String, HashSet<_>>::entry(k).or_default().insert(v)
IndexInsert(m, k, v) ==
    MapInsert(m, k, (IF k \in DOMAIN m THEN m[k] ELSE {}) \cup {v})

(***************************************************************************)
(* Selectors.  naming::compute_bytearray_hash and                          *)
(* naming::compute_selector_from_names are collision-free hashes of the    *)
(* names; they are modelled as the tuple of the hashed names.              *)
(***************************************************************************)
ComputeBytearrayHash(ns) == <<ns>>

ComputeSelectorFromNames(ns, name) == <<ns, name>>

\* The selectors an event can name: each is unregistered until an event of
\* the log registers it.
Selectors ==
    {ComputeBytearrayHash(ns) : ns \in Namespaces}
        \cup {ComputeSelectorFromNames(ns, n) : ns \in Namespaces, n \in Names}

\* ByteArray::to_string: fails on a payload that is not valid UTF-8.
ByteArrayToString(b) == IF b = BadBytes THEN [ok |-> FALSE, s |-> ""] ELSE [ok |-> TRUE, s |-> b]

(***************************************************************************)
(* Remote resources.  One record shape for the four ResourceRemote         *)
(* variants; a Namespace has no class hashes and no address.               *)
(***************************************************************************)
NamespaceRemoteNew(name) ==
    [variant |-> "Namespace", name |-> name, address |-> 0,
     class_hashes |-> <<>>, initialized |-> FALSE, owners |-> {}, writers |-> {}]

\* CommonResourceRemoteInfo::new(class_hash, name, address) wrapped in a variant.
CommonResourceRemoteInfoNew(variant, class_hash, name, address) ==
    [variant |-> variant, name |-> name, address |-> address,
     class_hashes |-> <<class_hash>>, initialized |-> FALSE, owners |-> {}, writers |-> {}]

\* ResourceRemote::push_class_hash: a namespace has no history.
PushClassHash(r, class_hash) ==
    IF r.variant = "Namespace" THEN r
    ELSE [r EXCEPT !.class_hashes = Append(@, class_hash)]

\* PermissionsUpdateable::update_writer / update_owner: set insert or remove.
UpdateWriter(r, address, value) ==
    [r EXCEPT !.writers = IF value THEN @ \cup {address} ELSE @ \ {address}]

UpdateOwner(r, address, value) ==
    [r EXCEPT !.owners = IF value THEN @ \cup {address} ELSE @ \ {address}]

\* The Default of WorldRemote.
WorldRemoteDefault ==
    [class_hashes |-> <<>>, namespaces |-> {}, resources |-> EmptyMap,
     models |-> EmptyMap, events |-> EmptyMap, contracts |-> EmptyMap]

\* WorldRemote::add_resource(namespace, resource): computes the selector,
\* indexes it and stores the resource (replacing an earlier one).
AddResource(w, namespace, r) ==
    IF r.variant = "Namespace"
    THEN LET sel == ComputeBytearrayHash(r.name)
         IN  [w EXCEPT !.namespaces = @ \cup {sel},
                       !.resources = MapInsert(@, sel, r)]
    ELSE LET sel == ComputeSelectorFromNames(namespace, r.name)
             w1 == [w EXCEPT !.resources = MapInsert(@, sel, r)]
         IN  CASE r.variant = "Model" ->
                    [w1 EXCEPT !.models = IndexInsert(@, namespace, sel)]
               [] r.variant = "Event" ->
                    [w1 EXCEPT !.events = IndexInsert(@, namespace, sel)]
               [] OTHER ->
                    [w1 EXCEPT !.contracts = IndexInsert(@, namespace, sel)]

(***************************************************************************)
(* World events.  One record shape for every event kind; the fields an     *)
(* event kind does not carry hold the defaults below.                      *)
(***************************************************************************)
NoName == ""
NoSelector == <<>>

Ev(kind, namespace, name, class_hash, address, selector, value) ==
    [kind |-> kind, namespace |-> namespace, name |-> name, class_hash |-> class_hash,
     address |-> address, selector |-> selector, value |-> value]

NoEvent == Ev("None", NoName, NoName, 0, 0, NoSelector, FALSE)

RegisteredKinds == {"ModelRegistered", "EventRegistered", "ContractRegistered"}
UpgradedKinds == {"ModelUpgraded", "EventUpgraded", "ContractUpgraded"}
PermissionKinds == {"WriterUpdated", "OwnerUpdated"}

\* The outcome of one match_event call: Ok(()), Err(e) or a panic of unwrap().
Ok(w) == [outcome |-> "Ok", world |-> w]
Err(w) == [outcome |-> "Err", world |-> w]
Panic(w) == [outcome |-> "Panic", world |-> w]

(***************************************************************************)
(* WorldRemote::match_event, one operator per match arm.                   *)
(***************************************************************************)
OnWorldSpawned(w, e) == Ok([w EXCEPT !.class_hashes = Append(@, e.class_hash)])

\* A world upgrade that replaces the history by the new class hash.
OnWorldUpgradedReplaces(w, e) == Ok([w EXCEPT !.class_hashes = <<e.class_hash>>])

OnWorldUpgraded(w, e) == Ok([w EXCEPT !.class_hashes = Append(@, e.class_hash)])

\* A namespace registration that builds the resource and never adds it.
OnNamespaceRegisteredDropped(w, e) ==
    LET ns == ByteArrayToString(e.namespace)
    IN  IF ~ns.ok THEN Err(w) ELSE Ok(w)

OnNamespaceRegistered(w, e) ==
    LET ns == ByteArrayToString(e.namespace)
    IN  IF ~ns.ok THEN Err(w)
        ELSE Ok(AddResource(w, ns.s, NamespaceRemoteNew(ns.s)))

OnModelRegistered(w, e) ==
    LET name == ByteArrayToString(e.name)
        ns == ByteArrayToString(e.namespace)
    IN  IF ~name.ok \/ ~ns.ok THEN Err(w)
        ELSE Ok(AddResource(w, ns.s,
                  CommonResourceRemoteInfoNew("Model", e.class_hash, name.s, e.address)))

\* An event registration that indexes the selector and stores no resource.
OnEventRegisteredIndexOnly(w, e) ==
    LET name == ByteArrayToString(e.name)
        ns == ByteArrayToString(e.namespace)
    IN  IF ~name.ok \/ ~ns.ok THEN Err(w)
        ELSE Ok([w EXCEPT !.events =
                    IndexInsert(@, ns.s, ComputeSelectorFromNames(ns.s, name.s))])

OnEventRegistered(w, e) ==
    LET name == ByteArrayToString(e.name)
        ns == ByteArrayToString(e.namespace)
    IN  IF ~name.ok \/ ~ns.ok THEN Err(w)
        ELSE Ok(AddResource(w, ns.s,
                  CommonResourceRemoteInfoNew("Event", e.class_hash, name.s, e.address)))

\* A contract registration that marks the contract initialized.
OnContractRegisteredInitialized(w, e) ==
    LET name == ByteArrayToString(e.name)
        ns == ByteArrayToString(e.namespace)
    IN  IF ~name.ok \/ ~ns.ok THEN Err(w)
        ELSE Ok(AddResource(w, ns.s,
                  [CommonResourceRemoteInfoNew("Contract", e.class_hash, name.s, e.address)
                      EXCEPT !.initialized = TRUE]))

OnContractRegistered(w, e) ==
    LET name == ByteArrayToString(e.name)
        ns == ByteArrayToString(e.namespace)
    IN  IF ~name.ok \/ ~ns.ok THEN Err(w)
        ELSE Ok(AddResource(w, ns.s,
                  [CommonResourceRemoteInfoNew("Contract", e.class_hash, name.s, e.address)
                      EXCEPT !.initialized = FALSE]))

\* A lookup that skips a missing selector instead of unwrapping it.
OnModelUpgradedLenient(w, e) ==
    IF e.selector \notin DOMAIN w.resources THEN Ok(w)
    ELSE Ok([w EXCEPT !.resources[e.selector] = PushClassHash(@, e.class_hash)])

\* self.resources.get_mut(&selector).unwrap() followed by push_class_hash:
\* the three upgrade arms are the same code.
OnModelUpgraded(w, e) ==
    IF e.selector \notin DOMAIN w.resources THEN Panic(w)
    ELSE Ok([w EXCEPT !.resources[e.selector] = PushClassHash(@, e.class_hash)])

\* An upgrade that puts the new class hash in front of the history.
OnEventUpgradedPrepends(w, e) ==
    IF e.selector \notin DOMAIN w.resources THEN Panic(w)
    ELSE Ok([w EXCEPT !.resources[e.selector].class_hashes = <<e.class_hash>> \o @])

OnEventUpgraded(w, e) ==
    IF e.selector \notin DOMAIN w.resources THEN Panic(w)
    ELSE Ok([w EXCEPT !.resources[e.selector] = PushClassHash(@, e.class_hash)])

\* An upgrade that replaces the history by the new class hash.
OnContractUpgradedReplacing(w, e) ==
    IF e.selector \notin DOMAIN w.resources THEN Panic(w)
    ELSE Ok([w EXCEPT !.resources[e.selector].class_hashes = <<e.class_hash>>])

\* An upgrade that resets the initialized flag of the resource.
OnContractUpgradedResetsInit(w, e) ==
    IF e.selector \notin DOMAIN w.resources THEN Panic(w)
    ELSE Ok([w EXCEPT !.resources[e.selector] =
                [PushClassHash(@, e.class_hash) EXCEPT !.initialized = FALSE]])

OnContractUpgraded(w, e) ==
    IF e.selector \notin DOMAIN w.resources THEN Panic(w)
    ELSE Ok([w EXCEPT !.resources[e.selector] = PushClassHash(@, e.class_hash)])

\* An initialization that sets the flag whatever the variant of the
\* resource.
OnContractInitializedAnyVariant(w, e) ==
    IF e.selector \notin DOMAIN w.resources THEN Panic(w)
    ELSE Ok([w EXCEPT !.resources[e.selector].initialized = TRUE])

\* get_mut().unwrap(), then as_contract_mut()? (an error for another variant).
OnContractInitialized(w, e) ==
    IF e.selector \notin DOMAIN w.resources THEN Panic(w)
    ELSE IF w.resources[e.selector].variant # "Contract" THEN Err(w)
    ELSE Ok([w EXCEPT !.resources[e.selector].initialized = TRUE])

\* A writer update applied to the owner set.
OnWriterUpdatedAsOwner(w, e) ==
    IF e.selector \notin DOMAIN w.resources THEN Panic(w)
    ELSE Ok([w EXCEPT !.resources[e.selector] = UpdateOwner(@, e.address, e.value)])

OnWriterUpdated(w, e) ==
    IF e.selector \notin DOMAIN w.resources THEN Panic(w)
    ELSE Ok([w EXCEPT !.resources[e.selector] = UpdateWriter(@, e.address, e.value)])

\* An owner update applied to every resource.
OnOwnerUpdatedEverywhere(w, e) ==
    IF e.selector \notin DOMAIN w.resources THEN Panic(w)
    ELSE Ok([w EXCEPT !.resources =
                [s \in DOMAIN @ |-> UpdateOwner(@[s], e.address, e.value)]])

OnOwnerUpdated(w, e) ==
    IF e.selector \notin DOMAIN w.resources THEN Panic(w)
    ELSE Ok([w EXCEPT !.resources[e.selector] = UpdateOwner(@, e.address, e.value)])

MatchEvent(w, e) ==
    CASE e.kind = "WorldSpawned" -> OnWorldSpawned(w, e)
      [] e.kind = "WorldUpgraded" -> OnWorldUpgraded(w, e)
      [] e.kind = "NamespaceRegistered" -> OnNamespaceRegistered(w, e)
      [] e.kind = "ModelRegistered" -> OnModelRegistered(w, e)
      [] e.kind = "EventRegistered" -> OnEventRegistered(w, e)
      [] e.kind = "ContractRegistered" -> OnContractRegistered(w, e)
      [] e.kind = "ModelUpgraded" -> OnModelUpgraded(w, e)
      [] e.kind = "EventUpgraded" -> OnEventUpgraded(w, e)
      [] e.kind = "ContractUpgraded" -> OnContractUpgraded(w, e)
      [] e.kind = "ContractInitialized" -> OnContractInitialized(w, e)
      [] e.kind = "WriterUpdated" -> OnWriterUpdated(w, e)
      [] e.kind = "OwnerUpdated" -> OnOwnerUpdated(w, e)
      [] OTHER -> Ok(w)

(***************************************************************************)
(* The events a log can hold, and the raw events they are decoded from.    *)
(***************************************************************************)
ByteArrays(S) == S \cup {BadBytes}

WorldEvents ==
    {Ev(k, NoName, NoName, c, 0, NoSelector, FALSE) :
        k \in {"WorldSpawned", "WorldUpgraded"}, c \in ClassHashes}
    \cup {Ev("NamespaceRegistered", ns, NoName, 0, 0, NoSelector, FALSE) :
        ns \in ByteArrays(Namespaces)}
    \cup {Ev(k, ns, n, c, 1, NoSelector, FALSE) :
        k \in RegisteredKinds, ns \in Namespaces, n \in ByteArrays(Names), c \in ClassHashes}
    \cup {Ev(k, NoName, NoName, c, 0, s, FALSE) :
        k \in UpgradedKinds, s \in Selectors, c \in ClassHashes}
    \cup {Ev("ContractInitialized", NoName, NoName, 0, 0, s, FALSE) : s \in Selectors}
    \cup {Ev(k, NoName, NoName, 0, a, s, v) :
        k \in PermissionKinds, s \in Selectors, a \in Addresses, v \in BOOLEAN}
    \cup {Ev("StoreSetRecord", NoName, NoName, 0, 0, NoSelector, FALSE)}

\* A raw event the provider returns: the payload and whether it has the
\* shape of a world event.
Raw(e) == [decodable |-> TRUE, event |-> e]
Garbage == [decodable |-> FALSE, event |-> NoEvent]

RawEvents == {Raw(e) : e \in WorldEvents} \cup {Garbage}

\* world::Event::try_from(raw)
TryFrom(raw) == IF raw.decodable THEN [ok |-> TRUE, ev |-> raw.event]
                ELSE [ok |-> FALSE, ev |-> NoEvent]

\* A loop iteration that returns an error for an event that does not
\* decode.
ReplayOneStrict(w, raw) ==
    LET d == TryFrom(raw)
    IN  IF d.ok THEN MatchEvent(w, d.ev) ELSE Err(w)

\* One iteration of the loop `for event in events` of from_events: decode,
\* match_event, and `?` on its result.  An undecodable event is logged and
\* skipped.
ReplayOne(w, raw) ==
    LET d == TryFrom(raw)
    IN  IF d.ok THEN MatchEvent(w, d.ev) ELSE Ok(w)

StatusAfter(outcome) ==
    CASE outcome = "Ok" -> "running"
      [] outcome = "Err" -> "error"
      [] OTHER -> "panic"

(***************************************************************************)
(* History kept for the properties: the class hashes a selector has seen   *)
(* since its last registration, computed from the events alone.            *)
(***************************************************************************)
ExpectAfter(h, w, raw, outcome) ==
    IF ~raw.decodable \/ outcome # "Ok" THEN h
    ELSE LET e == raw.event
         IN  CASE e.kind \in RegisteredKinds ->
                    MapInsert(h, ComputeSelectorFromNames(e.namespace, e.name),
                              <<e.class_hash>>)
               [] e.kind \in UpgradedKinds /\ e.selector \in DOMAIN h ->
                    [h EXCEPT ![e.selector] = Append(@, e.class_hash)]
               [] OTHER -> h

(***************************************************************************)
(* The values the variables of a component hold while another component's  *)
(* specification runs.                                                     *)
(***************************************************************************)
None == <<>>
Some(x) == <<x>>

ReplayIdle ==
    /\ status = "running"
    /\ last_ev = Garbage
    /\ last_changed = FALSE
    /\ n_events = 0
    /\ expect_hist = EmptyMap

FromEventsIdle ==
    /\ provider = <<>>
    /\ requests = 0
    /\ returned = None

MigrateIdle ==
    /\ diff = None
    /\ profile_config = None
    /\ pc = "idle"
    /\ phases = <<>>
    /\ submitted = <<>>
    /\ result = "none"
    /\ runs = 0
    /\ world_local = None

ExecutorIdle ==
    /\ transactions = <<>>
    /\ stats = None
    /\ declared_classes = {}
    /\ block_context = None
    /\ exec_last = None
    /\ n_submitted = 0
    /\ ledger = <<>>
    /\ sim_last = None

(***************************************************************************)
(* Specification of the replay.                                            *)
(***************************************************************************)
Init ==
    /\ world_remote = WorldRemoteDefault
    /\ status = "running"
    /\ last_ev = Garbage
    /\ last_changed = FALSE
    /\ n_events = 0
    /\ expect_hist = EmptyMap
    /\ FromEventsIdle
    /\ MigrateIdle
    /\ ExecutorIdle

ReplayStep(raw) ==
    /\ status = "running"
    /\ n_events < MaxEvents
    /\ LET r == ReplayOne(world_remote, raw)
       IN  /\ world_remote' = r.world
           /\ status' = StatusAfter(r.outcome)
           /\ last_changed' = (r.world # world_remote)
           /\ expect_hist' = ExpectAfter(expect_hist, world_remote, raw, r.outcome)
    /\ last_ev' = raw
    /\ n_events' = n_events + 1
    /\ UNCHANGED <<executor_vars, from_events_vars, migrate_vars>>

Next == \E raw \in RawEvents : ReplayStep(raw)

Spec == Init /\ [][Next]_vars

(***************************************************************************)
(* Properties of the replay.                                               *)
(***************************************************************************)
LastEvent == last_ev.event

Stepped == n_events > 0 /\ last_ev.decodable

SelectorKinds == UpgradedKinds \cup PermissionKinds \cup {"ContractInitialized"}

\* The last event names a selector that no earlier event registered.  (An
\* event of these kinds registers nothing, so the selector is absent after
\* the event iff it was absent before it.)
UnregisteredRef ==
    /\ Stepped
    /\ LastEvent.kind \in SelectorKinds
    /\ LastEvent.selector \notin DOMAIN world_remote.resources

\* C2 as stated: an upgrade, initialization or permission event for a
\* selector that was never registered ends the replay with an error value
\* returned to the caller.
C2_TypedError == UnregisteredRef => status = "error"

\* C2 as amended: such an event ends the replay with a panic of unwrap()
\* (no error value is returned), it leaves the remote state as it was, and
\* it is the last event handled: no later event of the log is applied.
C2_Panics ==
    /\ UnregisteredRef => (status = "panic" /\ ~last_changed)
    /\ status = "panic" => UnregisteredRef

C2_Witness ==
    /\ UnregisteredRef
    /\ status = "panic"
    /\ n_events > 1
    /\ world_remote # WorldRemoteDefault

\* C6: the class-hash history of a registered model, event or contract is
\* the class hash of its registration followed by the class hashes of the
\* upgrade events for its selector, in log order.
C6_HistoryInLogOrder ==
    \A s \in DOMAIN world_remote.resources :
        world_remote.resources[s].variant # "Namespace" =>
            /\ s \in DOMAIN expect_hist
            /\ world_remote.resources[s].class_hashes = expect_hist[s]

C6_Witness ==
    \E s \in DOMAIN world_remote.resources :
        /\ world_remote.resources[s].variant = "Contract"
        /\ LastEvent.kind = "ContractUpgraded"
        /\ Len(world_remote.resources[s].class_hashes) = 3
        /\ world_remote.resources[s].class_hashes[1] # world_remote.resources[s].class_hashes[2]

\* The permission set of resource s after a step, or {} when s is absent.
WritersOf(w, s) == IF s \in DOMAIN w.resources THEN w.resources[s].writers ELSE {}
OwnersOf(w, s) == IF s \in DOMAIN w.resources THEN w.resources[s].owners ELSE {}

Registers(e, s) ==
    \/ e.kind \in RegisteredKinds /\ s = ComputeSelectorFromNames(e.namespace, e.name)
    \/ e.kind = "NamespaceRegistered" /\ s = ComputeBytearrayHash(e.namespace)

\* C7: writer and owner sets follow set membership.  A WriterUpdated event
\* for a registered selector S and address A leaves A in writers(S) iff its
\* value is true and changes the membership of no other address (so a
\* duplicate grant and a revoke of an absent address change nothing); no
\* event other than a WriterUpdated for S or a registration of S changes
\* writers(S).  Likewise for OwnerUpdated and owners(S).
C7_SetMembership ==
    [][LET e == last_ev'.event
       IN  (n_events' = n_events + 1 /\ last_ev'.decodable) =>
             \A s \in DOMAIN world_remote.resources :
               /\ (e.kind = "WriterUpdated" /\ e.selector = s) =>
                     /\ (e.address \in WritersOf(world_remote', s)) <=> e.value
                     /\ WritersOf(world_remote', s) \ {e.address}
                           = WritersOf(world_remote, s) \ {e.address}
               /\ (e.kind = "OwnerUpdated" /\ e.selector = s) =>
                     /\ (e.address \in OwnersOf(world_remote', s)) <=> e.value
                     /\ OwnersOf(world_remote', s) \ {e.address}
                           = OwnersOf(world_remote, s) \ {e.address}
               /\ (~(e.kind = "WriterUpdated" /\ e.selector = s) /\ ~Registers(e, s)) =>
                     WritersOf(world_remote', s) = WritersOf(world_remote, s)
               /\ (~(e.kind = "OwnerUpdated" /\ e.selector = s) /\ ~Registers(e, s)) =>
                     OwnersOf(world_remote', s) = OwnersOf(world_remote, s)
      ]_vars

\* A duplicate grant: the last event granted writer to an address that was
\* already the only writer, and the set is still that single address.
C7_Witness ==
    /\ Stepped
    /\ status = "running"
    /\ LastEvent.kind = "WriterUpdated"
    /\ LastEvent.value
    /\ ~last_changed
    /\ WritersOf(world_remote, LastEvent.selector) = {LastEvent.address}

\* C8: replaying NamespaceRegistered for a namespace name adds the
\* namespace's selector to `namespaces` and maps it in `resources` to a
\* Namespace with that name and empty owner and writer sets.
C8_NamespaceRegistered ==
    (Stepped /\ LastEvent.kind = "NamespaceRegistered" /\ status = "running") =>
        LET sel == ComputeBytearrayHash(LastEvent.namespace)
        IN  /\ sel \in world_remote.namespaces
            /\ sel \in DOMAIN world_remote.resources
            /\ world_remote.resources[sel].variant = "Namespace"
            /\ world_remote.resources[sel].name = LastEvent.namespace
            /\ world_remote.resources[sel].owners = {}
            /\ world_remote.resources[sel].writers = {}

C8_Witness ==
    /\ Stepped
    /\ LastEvent.kind = "NamespaceRegistered"
    /\ status = "running"
    /\ ComputeBytearrayHash(LastEvent.namespace) \in world_remote.namespaces

VariantOf(kind) ==
    CASE kind = "ModelRegistered" -> "Model"
      [] kind = "EventRegistered" -> "Event"
      [] OTHER -> "Contract"

IndexOf(w, kind) ==
    CASE kind = "ModelRegistered" -> w.models
      [] kind = "EventRegistered" -> w.events
      [] OTHER -> w.contracts

\* C9: replaying ModelRegistered, EventRegistered or ContractRegistered
\* inserts, under the selector of namespace+name, a resource of the
\* corresponding variant whose class-hash history is the single class hash
\* of the event, and adds the selector to the namespace's models, events or
\* contracts index; a registered contract starts with initialized = false.
C9_ResourceRegistered ==
    (Stepped /\ LastEvent.kind \in RegisteredKinds /\ status = "running") =>
        LET e == LastEvent
            sel == ComputeSelectorFromNames(e.namespace, e.name)
        IN  /\ sel \in DOMAIN world_remote.resources
            /\ world_remote.resources[sel].variant = VariantOf(e.kind)
            /\ world_remote.resources[sel].class_hashes = <<e.class_hash>>
            /\ e.namespace \in DOMAIN IndexOf(world_remote, e.kind)
            /\ sel \in IndexOf(world_remote, e.kind)[e.namespace]
            /\ ~world_remote.resources[sel].initialized

\* A contract registration handled as the third event of a log.
C9_Witness ==
    /\ Stepped
    /\ LastEvent.kind = "ContractRegistered"
    /\ status = "running"
    /\ n_events = 3
    /\ last_changed
    /\ ComputeSelectorFromNames(LastEvent.namespace, LastEvent.name)
          \in DOMAIN world_remote.resources

(***************************************************************************)
(* WorldRemote::from_events: fetch the pages, replay the events, return.   *)
(***************************************************************************)
\* The events of a page: the provider is asked for chunks of 500 events; a
\* page of the model carries at most one.
LogEvents ==
    {Raw(Ev("WorldSpawned", NoName, NoName, 1, 0, NoSelector, FALSE)),
     Raw(Ev("WorldUpgraded", NoName, NoName, 2, 0, NoSelector, FALSE)),
     Raw(Ev("NamespaceRegistered", "ns", NoName, 0, 0, NoSelector, FALSE)),
     Raw(Ev("ContractRegistered", "ns", "c", 1, 1, NoSelector, FALSE)),
     Raw(Ev("ContractUpgraded", NoName, NoName, 2, 0, <<"ns", "c">>, FALSE)),
     Raw(Ev("ContractInitialized", NoName, NoName, 0, 0, <<"ns", "c">>, FALSE)),
     Raw(Ev("WriterUpdated", NoName, NoName, 0, 1, <<"ns">>, TRUE)),
     Garbage}

PageEvents == {<<>>} \cup {<<e>> : e \in LogEvents}

ProviderLogs == UNION {[1..k -> PageEvents] : k \in 1..MaxPages}

\* provider.get_events(filter, continuation_token, chunk_size): the first
\* page for no token, else the page the token names; the page carries the
\* token of the next page unless it is the last.
GetEvents(pages, token) ==
    LET i == IF token = None THEN 1 ELSE token[1]
    IN  [events |-> pages[i],
         continuation_token |-> IF i < Len(pages) THEN Some(i + 1) ELSE None]

\* let mut continuation_token = None;
\* while continuation_token.is_some() { get_events; extend }
RECURSIVE FetchLoop(_, _, _, _)
FetchLoop(pages, continuation_token, events, n) ==
    IF continuation_token # None
    THEN LET page == GetEvents(pages, continuation_token)
         IN  FetchLoop(pages, page.continuation_token, events \o page.events, n + 1)
    ELSE [events |-> events, requests |-> n]

FetchEvents(pages) == FetchLoop(pages, None, <<>>, 0)

\* for event in events { ... self.match_event(ev)?; ... }
RECURSIVE ReplayAll(_, _)
ReplayAll(w, events) ==
    IF events = <<>> THEN Ok(w)
    ELSE LET r == ReplayOne(w, Head(events))
         IN  IF r.outcome = "Ok" THEN ReplayAll(r.world, Tail(events)) ELSE r

\* The value of from_events: Ok(Self::default()) after a replay without
\* error, else the error (or the panic) of the replay.
FromEventsReturn(r) ==
    IF r.outcome = "Ok" THEN [outcome |-> "Ok", value |-> Some(WorldRemoteDefault)]
    ELSE [outcome |-> r.outcome, value |-> None]

InitFromEvents ==
    /\ world_remote = WorldRemoteDefault
    /\ ReplayIdle
    /\ provider \in ProviderLogs
    /\ requests = 0
    /\ returned = None
    /\ MigrateIdle
    /\ ExecutorIdle

FromEvents ==
    /\ returned = None
    /\ LET f == FetchEvents(provider)
           r == ReplayAll(world_remote, f.events)
       IN  /\ requests' = f.requests
           /\ world_remote' = r.world
           /\ returned' = Some(FromEventsReturn(r))
    /\ UNCHANGED <<executor_vars, provider, replay_vars, migrate_vars>>

NextFromEvents == FromEvents

SpecFromEvents == InitFromEvents /\ [][NextFromEvents]_vars

\* The whole log of the provider: its pages in the order it serves them.
RECURSIVE Concat(_)
Concat(pages) == IF pages = <<>> THEN <<>> ELSE Head(pages) \o Concat(Tail(pages))

\* C3: from_events returns the remote state obtained by replaying, in log
\* order, every decodable event of the world's log: the returned value
\* equals the fold of match_event over the log from the empty state.
C3_ReturnsReplayedLog ==
    returned # None =>
        LET want == ReplayAll(WorldRemoteDefault, Concat(provider))
        IN  want.outcome = "Ok" =>
              /\ returned[1].outcome = "Ok"
              /\ returned[1].value = Some(want.world)

(***************************************************************************)
(* C29: the fetch loop of from_events.                                     *)
(***************************************************************************)
\* C29: from_events requests at least one page and keeps requesting pages
\* until a page carries no continuation token, so it requests every page of
\* the provider once, and the events it replays are the concatenation of
\* the pages in the order they were returned.
C29_ConsumesWholeLog ==
    returned # None =>
        /\ requests >= 1
        /\ requests = Len(provider)
        /\ world_remote = ReplayAll(WorldRemoteDefault, Concat(provider)).world

(***************************************************************************)
(* Migration: the WorldDiff and the ProfileConfig a Migration is built     *)
(* with.  The diff holds one namespace, one contract and one model or      *)
(* event; the orders in which its maps and sets are iterated are free.     *)
(***************************************************************************)
WorldSel == <<"world">>
NsSel == ComputeBytearrayHash("ns")
ContractSel == ComputeSelectorFromNames("ns", "c")
OtherSel == ComputeSelectorFromNames("ns", "m")

ContractTag == "ns-c"

\* A ResourceDiff: Created(local), Updated(local, remote) or Synced(local,
\* remote).  is_initialized is the remote contract's flag and is false
\* where there is no remote contract.
ResourceDiff(rtype, state, tag, class_hash, is_initialized) ==
    [rtype |-> rtype, state |-> state, tag |-> tag, class_hash |-> class_hash,
     is_initialized |-> is_initialized]

NamespaceDiffs ==
    {ResourceDiff("Namespace", st, "ns", 0, FALSE) : st \in {"Created", "Synced"}}

ContractDiffs ==
    {ResourceDiff("Contract", "Created", ContractTag, 1, FALSE)}
    \cup {ResourceDiff("Contract", st, ContractTag, 1, b) :
            st \in {"Updated", "Synced"}, b \in BOOLEAN}

OtherDiffs ==
    {ResourceDiff(t, st, "ns-m", 2, FALSE) :
        t \in {"Model", "Event"}, st \in {"Created", "Updated", "Synced"}}

\* A permission diff of one resource and one kind of permission.
PermissionDiff(only_local, only_remote) ==
    [only_local |-> only_local, only_remote |-> only_remote]

NoPermissionDiff == PermissionDiff({}, {})

OwnerDiffs ==
    {NoPermissionDiff, PermissionDiff({1}, {2}), PermissionDiff({}, {1})}

WriterDiffs == {NoPermissionDiff, PermissionDiff({1, 2}, {})}

WorldStatuses == {"NotDeployed", "NewVersion", "Synced"}

WorldDiffs ==
    {[world_status |-> ws,
      world_class_hash |-> 1,
      namespaces |-> {NsSel},
      resources |-> (NsSel :> n) @@ (ContractSel :> c) @@ (OtherSel :> o),
      owners |-> (NsSel :> NoPermissionDiff) @@ (ContractSel :> od)
                    @@ (OtherSel :> NoPermissionDiff),
      writers |-> (NsSel :> wd) @@ (ContractSel :> NoPermissionDiff)
                    @@ (OtherSel :> NoPermissionDiff)] :
        ws \in WorldStatuses, n \in NamespaceDiffs, c \in ContractDiffs,
        o \in OtherDiffs, od \in OwnerDiffs, wd \in WriterDiffs}

\* WorldDiff::is_synced: every resource is Synced.
IsSynced(d) == \A s \in DOMAIN d.resources : d.resources[s].state = "Synced"

\* Init-call argument literals, as the characters of the configured string.
ArgLiterals == {<<"0", "x", "1", "f">>, <<"4", "2">>, <<"z", "z">>}


InitCallArgs ==
    {None,
     Some("ns-other" :> <<>>),
     Some(ContractTag :> << <<"0", "x", "1", "f">>, <<"4", "2">> >>),
     Some(ContractTag :> << <<"4", "2">>, <<"z", "z">> >>)}

MigrationConfigs == {None, Some([disable_multicall |-> FALSE]),
                     Some([disable_multicall |-> TRUE])}

ProfileConfigs ==
    {[init_call_args |-> a, migration |-> m] : a \in InitCallArgs, m \in MigrationConfigs}

(***************************************************************************)
(* Felt::from_str: a hexadecimal literal after "0x", else a decimal one.   *)
(***************************************************************************)
DigitValue(ch) ==
    CASE ch = "0" -> 0 [] ch = "1" -> 1 [] ch = "2" -> 2 [] ch = "3" -> 3
      [] ch = "4" -> 4 [] ch = "5" -> 5 [] ch = "6" -> 6 [] ch = "7" -> 7
      [] ch = "8" -> 8 [] ch = "9" -> 9 [] ch = "a" -> 10 [] ch = "b" -> 11
      [] ch = "c" -> 12 [] ch = "d" -> 13 [] ch = "e" -> 14 [] ch = "f" -> 15
      [] OTHER -> 16

RECURSIVE ParseDigits(_, _, _)
ParseDigits(chars, base, acc) ==
    IF chars = <<>> THEN [ok |-> TRUE, felt |-> acc]
    ELSE IF DigitValue(Head(chars)) >= base THEN [ok |-> FALSE, felt |-> 0]
    ELSE ParseDigits(Tail(chars), base, acc * base + DigitValue(Head(chars)))

FeltFromStr(str) ==
    IF Len(str) >= 2 /\ str[1] = "0" /\ str[2] = "x"
    THEN ParseDigits(SubSeq(str, 3, Len(str)), 16, 0)
    ELSE IF str = <<>> THEN [ok |-> FALSE, felt |-> 0]
    ELSE ParseDigits(str, 10, 0)

\* A parse loop that pushes each parsed argument in front of the earlier ones.
RECURSIVE ParseArgsReversed(_)
ParseArgsReversed(args) ==
    IF args = <<>> THEN [ok |-> TRUE, felts |-> <<>>]
    ELSE LET f == FeltFromStr(Head(args))
             rest == ParseArgsReversed(Tail(args))
         IN  IF f.ok /\ rest.ok THEN [ok |-> TRUE, felts |-> rest.felts \o <<f.felt>>]
             ELSE [ok |-> FALSE, felts |-> <<>>]

\* for arg in args { parsed_args.push(Felt::from_str(arg)?) }
RECURSIVE ParseArgs(_)
ParseArgs(args) ==
    IF args = <<>> THEN [ok |-> TRUE, felts |-> <<>>]
    ELSE LET f == FeltFromStr(Head(args))
             rest == ParseArgs(Tail(args))
         IN  IF f.ok /\ rest.ok THEN [ok |-> TRUE, felts |-> <<f.felt>> \o rest.felts]
             ELSE [ok |-> FALSE, felts |-> <<>>]

(***************************************************************************)
(* Calls and transactions.  A call names the entry point, the resource it  *)
(* is about, and its class hash, grantee address or calldata.              *)
(***************************************************************************)
Call(op, selector, class_hash, address, calldata) ==
    [op |-> op, selector |-> selector, class_hash |-> class_hash,
     address |-> address, calldata |-> calldata]

\* The iteration orders of a set: HashMap and HashSet iterate in an order
\* the program does not choose.
Orders(S) ==
    {f \in [1..Cardinality(S) -> S] : \A i, j \in 1..Cardinality(S) : f[i] = f[j] => i = j}

\* The members of set S in the order seq lists them.
RECURSIVE InOrder(_, _)
InOrder(seq, S) ==
    IF seq = <<>> THEN <<>>
    ELSE (IF Head(seq) \in S THEN <<Head(seq)>> ELSE <<>>) \o InOrder(Tail(seq), S)

\* One call `op` on resource sel per address of the sequence.
GrantCalls(op, sel, addresses) ==
    [i \in 1..Len(addresses) |-> Call(op, sel, 0, addresses[i], <<>>)]

\* A do_multicall that ignores the configuration.
DoMulticallIgnoringConfig(cfg) == TRUE

\* Migration::do_multicall
DoMulticall(cfg) ==
    IF cfg.migration = None THEN TRUE ELSE ~cfg.migration[1].disable_multicall

\* The transactions of an Invoker holding `calls`: one transaction for
\* multicall(), one per call for invoke_all_sequentially(); nothing is sent
\* for no call.
InvokerTxs(calls, multicall) ==
    IF calls = <<>> THEN <<>>
    ELSE IF multicall THEN <<calls>>
    ELSE [i \in 1..Len(calls) |-> <<calls[i]>>]

\* Declarer::declare_all: one declare transaction per class.
DeclarerTxs(classes) == [i \in 1..Len(classes) |-> <<classes[i]>>]

\* Declarer::add_class is keyed by the class hash: a class already added
\* is not added again.
AddClass(classes, call) ==
    IF \E i \in 1..Len(classes) : classes[i].class_hash = call.class_hash
    THEN classes ELSE Append(classes, call)

\* What can come of sending `txs` one after the other and awaiting each
\* with `?`: all are accepted, or the k-th is rejected and the rest is
\* never sent.
Submissions(txs) ==
    {[sent |-> txs, error |-> "none"]}
    \cup {[sent |-> SubSeq(txs, 1, k), error |-> "SubmissionError"] : k \in 1..Len(txs)}

(***************************************************************************)
(* The four phases of Migration::migrate.  Each phase yields the calls it  *)
(* queued on its Invoker, the classes it queued on its Declarer, the       *)
(* transactions it sent, and its error ("none" for Ok(())).                *)
(***************************************************************************)
PhaseOutcome(calls, classes, sent, error) ==
    [calls |-> calls, classes |-> classes, sent |-> sent, error |-> error]

\* An ensure_world that deploys or upgrades the world before it declares
\* the world class.
EnsureWorldOutcomesDeclareLast(d) ==
    LET declare == Call("declare", WorldSel, d.world_class_hash, 0, <<>>)
        deploy == Call("deploy_via_udc", WorldSel, d.world_class_hash, 0, <<>>)
        upgrade == Call("upgrade", WorldSel, d.world_class_hash, 0, <<>>)
    IN  CASE d.world_status = "Synced" ->
               {PhaseOutcome(<<>>, <<>>, <<>>, "none")}
          [] d.world_status = "NotDeployed" ->
               {PhaseOutcome(<<>>, <<>>, s.sent, s.error) :
                   s \in Submissions(<< <<deploy>>, <<declare>> >>)}
          [] OTHER ->
               {PhaseOutcome(<<upgrade>>, <<>>, s.sent, s.error) :
                   s \in Submissions(InvokerTxs(<<upgrade>>, TRUE) \o << <<declare>> >>)}

\* Migration::ensure_world
EnsureWorldOutcomes(d) ==
    LET declare == Call("declare", WorldSel, d.world_class_hash, 0, <<>>)
        deploy == Call("deploy_via_udc", WorldSel, d.world_class_hash, 0, <<>>)
        upgrade == Call("upgrade", WorldSel, d.world_class_hash, 0, <<>>)
    IN  CASE d.world_status = "Synced" ->
               {PhaseOutcome(<<>>, <<>>, <<>>, "none")}
          [] d.world_status = "NotDeployed" ->
               {PhaseOutcome(<<>>, <<>>, s.sent, s.error) :
                   s \in Submissions(<< <<declare>>, <<deploy>> >>)}
          [] OTHER ->
               {PhaseOutcome(IF Len(s.sent) = 2 \/ s.error = "none"
                                THEN <<upgrade>> ELSE <<>>,
                             <<>>, s.sent, s.error) :
                   s \in Submissions(<< <<declare>> >> \o InvokerTxs(<<upgrade>>, TRUE))}

\* Migration::namespaces_getcalls
RECURSIVE NamespacesLoop(_, _)
NamespacesLoop(d, namespaces) ==
    IF namespaces = <<>> THEN <<>>
    ELSE LET ns == Head(namespaces)
         IN  (IF d.resources[ns].state = "Created" /\ d.resources[ns].rtype = "Namespace"
              THEN <<Call("register_namespace", ns, 0, 0, <<>>)>>
              ELSE <<>>) \o NamespacesLoop(d, Tail(namespaces))

NamespacesGetcalls(d, order) == NamespacesLoop(d, InOrder(order, d.namespaces))

\* A contracts_getcalls that queues a registration call, not an upgrade
\* call, for an Updated contract.
ContractsGetcallsUpdatedRegisters(r, sel, acc) ==
    IF r.state \in {"Created", "Updated"} /\ r.rtype = "Contract"
    THEN [classes |-> AddClass(acc.classes,
                          Call("declare", sel, r.class_hash, 0, <<>>)),
          calls |-> Append(acc.calls,
                          Call("register_contract", sel, r.class_hash, 0, <<>>))]
    ELSE acc

\* Migration::contracts_getcalls, on the queues acc = [classes, calls].
ContractsGetcalls(r, sel, acc) ==
    LET a1 == IF r.state = "Created" /\ r.rtype = "Contract"
              THEN [classes |-> AddClass(acc.classes,
                                    Call("declare", sel, r.class_hash, 0, <<>>)),
                    calls |-> Append(acc.calls,
                                    Call("register_contract", sel, r.class_hash, 0, <<>>))]
              ELSE acc
    IN  IF r.state = "Updated" /\ r.rtype = "Contract"
        THEN [classes |-> AddClass(a1.classes,
                              Call("declare", sel, r.class_hash, 0, <<>>)),
              calls |-> Append(a1.calls,
                              Call("upgrade_contract", sel, r.class_hash, 0, <<>>))]
        ELSE a1

\* Migration::models_getcalls
ModelsGetcalls(r, sel, acc) ==
    LET a1 == IF r.state = "Created" /\ r.rtype = "Model"
              THEN [classes |-> AddClass(acc.classes,
                                    Call("declare", sel, r.class_hash, 0, <<>>)),
                    calls |-> Append(acc.calls,
                                    Call("register_model", sel, r.class_hash, 0, <<>>))]
              ELSE acc
    IN  IF r.state = "Updated" /\ r.rtype = "Model"
        THEN [classes |-> AddClass(a1.classes,
                              Call("declare", sel, r.class_hash, 0, <<>>)),
              calls |-> Append(a1.calls,
                              Call("upgrade_model", sel, r.class_hash, 0, <<>>))]
        ELSE a1

\* Migration::events_getcalls
EventsGetcalls(r, sel, acc) ==
    LET a1 == IF r.state = "Created" /\ r.rtype = "Event"
              THEN [classes |-> AddClass(acc.classes,
                                    Call("declare", sel, r.class_hash, 0, <<>>)),
                    calls |-> Append(acc.calls,
                                    Call("register_event", sel, r.class_hash, 0, <<>>))]
              ELSE acc
    IN  IF r.state = "Updated" /\ r.rtype = "Event"
        THEN [classes |-> AddClass(a1.classes,
                              Call("declare", sel, r.class_hash, 0, <<>>)),
              calls |-> Append(a1.calls,
                              Call("upgrade_event", sel, r.class_hash, 0, <<>>))]
        ELSE a1

\* The loop of sync_resources over diff.resources, in iteration order.
RECURSIVE ResourcesGetcalls(_, _, _)
ResourcesGetcalls(d, order, acc) ==
    IF order = <<>> THEN acc
    ELSE LET sel == Head(order)
             r == d.resources[sel]
             a1 == CASE r.rtype = "Contract" -> ContractsGetcalls(r, sel, acc)
                     [] r.rtype = "Model" -> ModelsGetcalls(r, sel, acc)
                     [] r.rtype = "Event" -> EventsGetcalls(r, sel, acc)
                     [] OTHER -> acc
         IN  ResourcesGetcalls(d, Tail(order), a1)

\* A resource phase that submits the Invoker's calls before the Declarer's
\* classes.
SyncResourcesOutcomesCallsFirst(d, cfg, order) ==
    LET q == ResourcesGetcalls(d, order,
                 [classes |-> <<>>, calls |-> NamespacesGetcalls(d, order)])
        txs == InvokerTxs(q.calls, DoMulticall(cfg)) \o DeclarerTxs(q.classes)
    IN  {PhaseOutcome(q.calls, q.classes, s.sent, s.error) : s \in Submissions(txs)}

\* A resource phase that queues the namespace registrations after the
\* calls of the other resources.
SyncResourcesOutcomesNamespacesLast(d, cfg, order) ==
    LET r == ResourcesGetcalls(d, order, [classes |-> <<>>, calls |-> <<>>])
        q == [classes |-> r.classes, calls |-> r.calls \o NamespacesGetcalls(d, order)]
        txs == DeclarerTxs(q.classes) \o InvokerTxs(q.calls, DoMulticall(cfg))
    IN  {PhaseOutcome(q.calls, q.classes, s.sent, s.error) : s \in Submissions(txs)}

\* Migration::sync_resources
SyncResourcesOutcomes(d, cfg, order) ==
    LET q == ResourcesGetcalls(d, order,
                 [classes |-> <<>>, calls |-> NamespacesGetcalls(d, order)])
        txs == DeclarerTxs(q.classes) \o InvokerTxs(q.calls, DoMulticall(cfg))
    IN  {PhaseOutcome(q.calls, q.classes, s.sent, s.error) : s \in Submissions(txs)}

\* A permission phase that also grants the owners that are only remote.
RECURSIVE SyncPermissionsCallsBothSides(_, _, _)
SyncPermissionsCallsBothSides(d, order, address_order) ==
    IF order = <<>> THEN <<>>
    ELSE LET sel == Head(order)
         IN  GrantCalls("grant_writer", sel,
                        InOrder(address_order, d.writers[sel].only_local))
               \o GrantCalls("grant_owner", sel,
                        InOrder(address_order,
                                d.owners[sel].only_local \cup d.owners[sel].only_remote))
               \o SyncPermissionsCallsBothSides(d, Tail(order), address_order)

\* The calls sync_permissions queues: for each resource, a writer grant per
\* address of writers.only_local(), then an owner grant per address of
\* owners.only_local().
RECURSIVE SyncPermissionsCalls(_, _, _)
SyncPermissionsCalls(d, order, address_order) ==
    IF order = <<>> THEN <<>>
    ELSE LET sel == Head(order)
         IN  GrantCalls("grant_writer", sel,
                        InOrder(address_order, d.writers[sel].only_local))
               \o GrantCalls("grant_owner", sel,
                        InOrder(address_order, d.owners[sel].only_local))
               \o SyncPermissionsCalls(d, Tail(order), address_order)

\* Migration::sync_permissions
SyncPermissionsOutcomes(d, cfg, order, address_order) ==
    LET calls == SyncPermissionsCalls(d, order, address_order)
    IN  {PhaseOutcome(calls, <<>>, s.sent, s.error) :
            s \in Submissions(InvokerTxs(calls, DoMulticall(cfg)))}

\* init_call_args.get(&tag) on the configured map (an empty map when no
\* init_call_args is configured).
InitArgsOf(cfg, tag) ==
    IF cfg.init_call_args = None THEN None
    ELSE IF tag \in DOMAIN cfg.init_call_args[1] THEN Some(cfg.init_call_args[1][tag])
    ELSE None

\* A match that never initializes a contract classified Synced.
DoInitSyncedSkipped(r) ==
    CASE r.state = "Created" -> TRUE
      [] r.state = "Updated" -> ~r.is_initialized
      [] OTHER -> FALSE

\* A match that initializes every contract, whatever its remote flag.
DoInitAlways(r) == r.state \in {"Created", "Updated", "Synced"}

\* The match of initialize_contracts on a contract's diff.
DoInit(r) ==
    CASE r.state = "Created" -> TRUE
      [] r.state = "Updated" -> ~r.is_initialized
      [] r.state = "Synced" -> ~r.is_initialized
      [] OTHER -> FALSE

\* The loop of initialize_contracts: the calls queued, or the parse error
\* that returns from the function.
RECURSIVE InitCalls(_, _, _, _)
InitCalls(d, cfg, order, calls) ==
    IF order = <<>> THEN [calls |-> calls, error |-> "none"]
    ELSE LET sel == Head(order)
             r == d.resources[sel]
         IN  IF r.rtype = "Contract" /\ DoInit(r)
             THEN LET configured == InitArgsOf(cfg, r.tag)
                      args == IF configured # None THEN ParseArgs(configured[1])
                              ELSE [ok |-> TRUE, felts |-> <<>>]
                  IN  IF ~args.ok THEN [calls |-> <<>>, error |-> "ParseError"]
                      ELSE InitCalls(d, cfg, Tail(order),
                               Append(calls, Call("init_contract", sel, 0, 0, args.felts)))
             ELSE InitCalls(d, cfg, Tail(order), calls)

\* Migration::initialize_contracts
InitializeContractsOutcomes(d, cfg, order) ==
    LET q == InitCalls(d, cfg, order, <<>>)
    IN  IF q.error # "none" THEN {PhaseOutcome(<<>>, <<>>, <<>>, q.error)}
        ELSE {PhaseOutcome(q.calls, <<>>, s.sent, s.error) :
                 s \in Submissions(InvokerTxs(q.calls, DoMulticall(cfg)))}

(***************************************************************************)
(* Migration::migrate: the order of the phases and the `?` on each.        *)
(***************************************************************************)
\* The permission phase run before the resource phase.
NextPhasePermissionsFirst(phase, d) ==
    CASE phase = "ensure_world" -> "sync_permissions"
      [] phase = "sync_permissions" ->
            IF ~IsSynced(d) THEN "sync_resources" ELSE "initialize_contracts"
      [] phase = "sync_resources" -> "initialize_contracts"
      [] OTHER -> "done"

\* The initialization phase run right after ensure_world.
NextPhaseInitFirst(phase, d) ==
    CASE phase = "ensure_world" -> "initialize_contracts"
      [] phase = "initialize_contracts" ->
            IF ~IsSynced(d) THEN "sync_resources" ELSE "sync_permissions"
      [] phase = "sync_resources" -> "sync_permissions"
      [] OTHER -> "done"

\* The resource phase run whether or not the diff is synced.
NextPhaseAlwaysSyncs(phase, d) ==
    CASE phase = "ensure_world" -> "sync_resources"
      [] phase = "sync_resources" -> "sync_permissions"
      [] phase = "sync_permissions" -> "initialize_contracts"
      [] OTHER -> "done"

NextPhase(phase, d) ==
    CASE phase = "ensure_world" ->
            IF ~IsSynced(d) THEN "sync_resources" ELSE "sync_permissions"
      [] phase = "sync_resources" -> "sync_permissions"
      [] phase = "sync_permissions" -> "initialize_contracts"
      [] OTHER -> "done"

\* A phase whose error is dropped instead of returned with `?`.
AfterPhaseIgnoringError(phase, error, d) == NextPhase(phase, d)

AfterPhase(phase, error, d) == IF error # "none" THEN "failed" ELSE NextPhase(phase, d)

ResultAfter(phase, error, d) ==
    IF error # "none" THEN error
    ELSE IF NextPhase(phase, d) = "done" THEN "Manifest" ELSE "none"

InitMigrate ==
    /\ world_remote = WorldRemoteDefault
    /\ ReplayIdle
    /\ FromEventsIdle
    /\ ExecutorIdle
    /\ diff \in WorldDiffs
    /\ profile_config \in ProfileConfigs
    /\ pc = "ensure_world"
    /\ phases = <<>>
    /\ submitted = <<>>
    /\ result = "none"
    /\ runs = 1
    /\ world_local = None

\* One phase, run from its start to its return.
RunPhase(phase, out) ==
    /\ phases' = Append(phases, [phase |-> phase, calls |-> out.calls,
                                 classes |-> out.classes, error |-> out.error])
    /\ submitted' = submitted \o out.sent
    /\ pc' = AfterPhase(phase, out.error, diff)
    /\ result' = ResultAfter(phase, out.error, diff)
    /\ UNCHANGED <<executor_vars, diff, profile_config, runs, world_local, world_remote, replay_vars,
                   from_events_vars>>

EnsureWorld ==
    /\ pc = "ensure_world"
    /\ \E out \in EnsureWorldOutcomes(diff) : RunPhase("ensure_world", out)

SyncResources ==
    /\ pc = "sync_resources"
    /\ \E order \in Orders(DOMAIN diff.resources) :
         \E out \in SyncResourcesOutcomes(diff, profile_config, order) :
            RunPhase("sync_resources", out)

SyncPermissions ==
    /\ pc = "sync_permissions"
    /\ \E order \in Orders(DOMAIN diff.resources) :
         \E address_order \in Orders({1, 2}) :
            \E out \in SyncPermissionsOutcomes(diff, profile_config, order, address_order) :
               RunPhase("sync_permissions", out)

InitializeContracts ==
    /\ pc = "initialize_contracts"
    /\ \E order \in Orders(DOMAIN diff.resources) :
         \E out \in InitializeContractsOutcomes(diff, profile_config, order) :
            RunPhase("initialize_contracts", out)

NextMigrate == EnsureWorld \/ SyncResources \/ SyncPermissions \/ InitializeContracts

SpecMigrate == InitMigrate /\ [][NextMigrate]_vars

(***************************************************************************)
(* Properties of the migration.                                            *)
(***************************************************************************)
\* The calls of every transaction sent so far, in the order sent.
SentCalls == Concat(submitted)

PhaseRank(phase) ==
    CASE phase = "ensure_world" -> 1
      [] phase = "sync_resources" -> 2
      [] phase = "sync_permissions" -> 3
      [] OTHER -> 4

\* The phase whose work a call is.
PhaseOfCall(call) ==
    CASE call.selector = WorldSel -> "ensure_world"
      [] call.op \in {"grant_writer", "grant_owner"} -> "sync_permissions"
      [] call.op = "init_contract" -> "initialize_contracts"
      [] OTHER -> "sync_resources"

\* The phases a run goes through when no phase fails.
PhaseOrder(d) ==
    IF IsSynced(d) THEN <<"ensure_world", "sync_permissions", "initialize_contracts">>
    ELSE <<"ensure_world", "sync_resources", "sync_permissions", "initialize_contracts">>

\* C1: the phases of a run are started in the order ensure_world,
\* sync_resources (when run), sync_permissions, initialize_contracts, each
\* only after the previous one returned without error; no grant is sent
\* before a registration, upgrade or declaration of the resource phase, and
\* no contract initialization before a grant.
C1_PhaseOrder ==
    /\ Len(phases) <= Len(PhaseOrder(diff))
    /\ \A i \in 1..Len(phases) :
          /\ phases[i].phase = PhaseOrder(diff)[i]
          /\ i < Len(phases) => phases[i].error = "none"
    /\ \A i, j \in 1..Len(SentCalls) :
          i < j => PhaseRank(PhaseOfCall(SentCalls[i])) <= PhaseRank(PhaseOfCall(SentCalls[j]))

\* A finished run that sent a registration, a grant and an initialization.
C1_Witness ==
    /\ pc = "done"
    /\ Len(phases) = 4
    /\ \E i, j, k \in 1..Len(SentCalls) :
          /\ i < j /\ j < k
          /\ SentCalls[i].op = "register_contract"
          /\ SentCalls[j].op = "grant_owner"
          /\ SentCalls[k].op = "init_contract"

\* C4 as stated: a run that ends with the parse error of an init-call
\* argument has sent no transaction at all.
C4_NothingSubmitted == result = "ParseError" => submitted = <<>>

\* C4 as amended: a run that ends with the parse error of an init-call
\* argument has sent no contract initialization; the error is returned by
\* the initialization phase, the last one, after the earlier phases ran.
C4_NoInitSubmitted ==
    result = "ParseError" =>
        /\ pc = "failed"
        /\ Len(phases) = Len(PhaseOrder(diff))
        /\ phases[Len(phases)].phase = "initialize_contracts"
        /\ phases[Len(phases)].calls = <<>>
        /\ \A i \in 1..Len(SentCalls) : SentCalls[i].op # "init_contract"
        /\ \A i \in 1..(Len(phases) - 1) : phases[i].error = "none"

\* A run that sent registrations and grants and then met the parse error.
C4_Witness ==
    /\ result = "ParseError"
    /\ \E i \in 1..Len(SentCalls) : SentCalls[i].op = "register_contract"
    /\ \E i \in 1..Len(SentCalls) : SentCalls[i].op = "grant_writer"

\* C5: when the submission of a phase fails, migrate returns an error and
\* no Manifest, the failed phase is the last one started, and no call of a
\* later phase is sent.
C5_FailureAborts ==
    \A i \in 1..Len(phases) :
        phases[i].error = "SubmissionError" =>
            /\ result = "SubmissionError"
            /\ pc = "failed"
            /\ i = Len(phases)
            /\ \A k \in 1..Len(SentCalls) :
                  PhaseRank(PhaseOfCall(SentCalls[k])) <= PhaseRank(phases[i].phase)

\* The resource phase sent its declarations and then failed, with grants
\* and initializations still to do.
C5_Witness ==
    /\ result = "SubmissionError"
    /\ phases[Len(phases)].phase = "sync_resources"
    /\ SentCalls # <<>>
    /\ diff.owners[ContractSel].only_local # {}
    /\ DoInit(diff.resources[ContractSel])

PermissionsPhase == {i \in 1..Len(phases) : phases[i].phase = "sync_permissions"}

Grants(calls, op) == {i \in 1..Len(calls) : calls[i].op = op}

\* C10: sync_permissions queues exactly one owner grant per address of
\* owners_only_local and one writer grant per address of writers_only_local
\* of each resource of the diff, and no call for an address that is only in
\* owners_only_remote or writers_only_remote.
C10_AdditiveGrants ==
    \A p \in PermissionsPhase :
        LET calls == phases[p].calls
        IN  /\ \A i \in 1..Len(calls) : calls[i].op \in {"grant_owner", "grant_writer"}
            /\ \A s \in DOMAIN diff.resources :
                  /\ \A a \in diff.owners[s].only_local :
                        Cardinality({i \in Grants(calls, "grant_owner") :
                            calls[i].selector = s /\ calls[i].address = a}) = 1
                  /\ \A a \in diff.writers[s].only_local :
                        Cardinality({i \in Grants(calls, "grant_writer") :
                            calls[i].selector = s /\ calls[i].address = a}) = 1
            /\ \A i \in Grants(calls, "grant_owner") :
                  /\ calls[i].selector \in DOMAIN diff.resources
                  /\ calls[i].address \in diff.owners[calls[i].selector].only_local
            /\ \A i \in Grants(calls, "grant_writer") :
                  /\ calls[i].selector \in DOMAIN diff.resources
                  /\ calls[i].address \in diff.writers[calls[i].selector].only_local

\* The permission phase ran on a diff with an owner to grant, an owner
\* that is only remote, and two writers to grant.
C10_Witness ==
    /\ PermissionsPhase # {}
    /\ diff.owners[ContractSel].only_local # {}
    /\ diff.owners[ContractSel].only_remote # {}
    /\ Cardinality(diff.writers[NsSel].only_local) = 2
    /\ \A p \in PermissionsPhase : Len(phases[p].calls) = 3

InitPhase == {i \in 1..Len(phases) : phases[i].phase = "initialize_contracts"}

\* The resources initialize_contracts is to initialize: the contracts that
\* are Created, or Updated or Synced with a remote initialized flag false.
DueForInit(d) ==
    {s \in DOMAIN d.resources :
        /\ d.resources[s].rtype = "Contract"
        /\ \/ d.resources[s].state = "Created"
           \/ /\ d.resources[s].state \in {"Updated", "Synced"}
              /\ ~d.resources[s].is_initialized}

\* C11: initialize_contracts queues an initialization call for a resource
\* iff the resource is a contract that is Created, or Updated or Synced
\* with a remote initialized flag false, and queues one call for it; a
\* contract already initialized remotely and a resource that is no contract
\* get no call.  (A run of the phase that returns the parse error of an
\* argument queued nothing; it met a contract that was due.)
C11_InitIffUninitializedContract ==
    \A p \in InitPhase :
        LET calls == phases[p].calls
        IN  IF phases[p].error = "ParseError"
            THEN DueForInit(diff) # {}
            ELSE /\ \A i \in 1..Len(calls) : calls[i].op = "init_contract"
                 /\ \A s \in DOMAIN diff.resources :
                       Cardinality({i \in 1..Len(calls) : calls[i].selector = s})
                           = IF s \in DueForInit(diff) THEN 1 ELSE 0

\* The initialization phase queued a call for a contract that is Synced
\* but not initialized remotely, next to a resource that is no contract.
C11_Witness ==
    /\ InitPhase # {}
    /\ diff.resources[ContractSel].state = "Synced"
    /\ ~diff.resources[ContractSel].is_initialized
    /\ diff.resources[OtherSel].state = "Created"
    /\ \A p \in InitPhase :
          /\ Len(phases[p].calls) = 1
          /\ phases[p].calls[1].selector = ContractSel

ResourcesPhase == {i \in 1..Len(phases) : phases[i].phase = "sync_resources"}

RegistrationOps == {"register_contract", "register_model", "register_event"}

UpgradeOps == {"upgrade_contract", "upgrade_model", "upgrade_event"}

\* The positions in SentCalls of the calls sent by sync_resources.
SentByResources == {i \in 1..Len(SentCalls) : PhaseOfCall(SentCalls[i]) = "sync_resources"}

\* C12: every registration or upgrade call sync_resources queues names a
\* class queued on the Declarer of the same run; the Declarer's classes are
\* all submitted before the first call of the Invoker, so no registration
\* or upgrade call is sent before the declaration of its class was sent.
C12_DeclaredBeforeCalled ==
    /\ \A p \in ResourcesPhase :
          \A i \in 1..Len(phases[p].calls) :
              phases[p].calls[i].op \in RegistrationOps \cup UpgradeOps =>
                  \E k \in 1..Len(phases[p].classes) :
                      phases[p].classes[k].class_hash = phases[p].calls[i].class_hash
    /\ \A i, j \in SentByResources :
          SentCalls[i].op = "declare" /\ SentCalls[j].op # "declare" => i < j
    /\ \A p \in ResourcesPhase :
          (\E j \in SentByResources : SentCalls[j].op # "declare") =>
              Cardinality({i \in SentByResources : SentCalls[i].op = "declare"})
                  = Len(phases[p].classes)
    /\ \A j \in SentByResources :
          SentCalls[j].op \in RegistrationOps \cup UpgradeOps =>
              \E i \in SentByResources :
                  /\ i < j
                  /\ SentCalls[i].op = "declare"
                  /\ SentCalls[i].class_hash = SentCalls[j].class_hash

\* The resource phase sent two declarations and then a registration and
\* an upgrade.
C12_Witness ==
    /\ ResourcesPhase # {}
    /\ \A p \in ResourcesPhase : Len(phases[p].classes) = 2
    /\ \E j \in SentByResources : SentCalls[j].op \in RegistrationOps
    /\ \E j \in SentByResources : SentCalls[j].op \in UpgradeOps

RegistrationOp(rtype) ==
    CASE rtype = "Contract" -> "register_contract"
      [] rtype = "Model" -> "register_model"
      [] OTHER -> "register_event"

UpgradeOp(rtype) ==
    CASE rtype = "Contract" -> "upgrade_contract"
      [] rtype = "Model" -> "upgrade_model"
      [] OTHER -> "upgrade_event"

\* The number of entries of a queue that are for selector s with an op of ops.
QueuedFor(queue, s, ops) ==
    Cardinality({i \in 1..Len(queue) : queue[i].selector = s /\ queue[i].op \in ops})

C14_NamespacesFirst ==
    \A p \in ResourcesPhase :
        LET calls == phases[p].calls
        IN  /\ \A ns \in diff.namespaces :
                  QueuedFor(calls, ns, {"register_namespace"})
                      = IF diff.resources[ns].state = "Created" THEN 1 ELSE 0
            /\ \A i \in 1..Len(calls) :
                  calls[i].op = "register_namespace" => calls[i].selector \in diff.namespaces
            /\ \A i, j \in 1..Len(calls) :
                  /\ calls[i].op = "register_namespace"
                  /\ calls[j].op \in RegistrationOps \cup UpgradeOps
                  => i < j

\* The resource phase queued the registration of a Created namespace and
\* then the registrations of a contract and of a model or event.
C14_Witness ==
    /\ ResourcesPhase # {}
    /\ diff.resources[NsSel].state = "Created"
    /\ \A p \in ResourcesPhase :
          /\ Len(phases[p].calls) = 3
          /\ phases[p].calls[1].op = "register_namespace"
          /\ phases[p].calls[2].op \in RegistrationOps
          /\ phases[p].calls[3].op \in RegistrationOps

IsWorldCall(call) == call.selector = WorldSel

\* The ops of the calls sent on the world itself, in the order sent.
WorldOpsSent ==
    LET sent == SelectSeq(SentCalls, IsWorldCall)
    IN  [i \in 1..Len(sent) |-> sent[i].op]

C15_WitnessNewVersion ==
    /\ Len(phases) >= 1
    /\ phases[1].error = "none"
    /\ diff.world_status = "NewVersion"
    /\ WorldOpsSent = <<"declare", "upgrade">>

\* A diff of a world that has converged: the world and every resource are
\* Synced, no owner and no writer is only local, and every contract is
\* initialized remotely.
Converged(d) ==
    /\ d.world_status = "Synced"
    /\ \A s \in DOMAIN d.resources :
          /\ d.resources[s].state = "Synced"
          /\ d.owners[s].only_local = {}
          /\ d.writers[s].only_local = {}
          /\ d.resources[s].rtype = "Contract" => d.resources[s].is_initialized

\* C16: a migrate run on the diff of a converged world queues no class and
\* no call in any phase, sends no transaction, and no phase fails.
C16_ConvergedIsNoop ==
    Converged(diff) =>
        /\ \A i \in 1..Len(phases) :
              /\ phases[i].calls = <<>>
              /\ phases[i].classes = <<>>
              /\ phases[i].error = "none"
        /\ submitted = <<>>
        /\ pc # "failed"

\* A run on the diff of a converged world, with an owner that is only
\* remote and init-call arguments configured for the contract, went
\* through its phases and returned the Manifest.
C16_Witness ==
    /\ Converged(diff)
    /\ pc = "done"
    /\ result = "Manifest"
    /\ Len(phases) = 3
    /\ diff.owners[ContractSel].only_remote # {}
    /\ InitArgsOf(profile_config, ContractTag) # None

ResourcePhaseOps == {"declare", "register_namespace"} \cup RegistrationOps \cup UpgradeOps

IsInitialized(w, s) ==
    /\ s \in DOMAIN w.resources
    /\ w.resources[s].variant = "Contract"
    /\ w.resources[s].initialized

\* The step handles a ContractInitialized event for s, registered as a
\* contract.
InitializesContract(s) ==
    /\ last_ev'.decodable
    /\ last_ev'.event.kind = "ContractInitialized"
    /\ last_ev'.event.selector = s
    /\ s \in DOMAIN world_remote.resources
    /\ world_remote.resources[s].variant = "Contract"

\* C19 as stated: a ContractInitialized event for a registered contract
\* sets its initialized flag, and a flag that is true stays true under
\* every later event of the log.
C19_MonotoneUnderEveryEvent ==
    [][\A s \in Selectors :
          /\ InitializesContract(s) => IsInitialized(world_remote', s)
          /\ IsInitialized(world_remote, s) => IsInitialized(world_remote', s)]_vars

\* C19 as amended: a ContractInitialized event for a registered contract
\* sets its initialized flag and the replay goes on; a flag that is true
\* stays true under every later event that is not a registration event for
\* the same selector (upgrade and permission events for the selector
\* included).  A registration event for the selector inserts a new
\* resource in place of the contract, with the flag false again.
C19_MonotoneUntilRegisteredAgain ==
    [][\A s \in Selectors :
          /\ InitializesContract(s) =>
                IsInitialized(world_remote', s) /\ status' = "running"
          /\ IsInitialized(world_remote, s) /\ ~Registers(last_ev'.event, s) =>
                IsInitialized(world_remote', s)
          /\ /\ IsInitialized(world_remote, s)
             /\ last_ev'.decodable
             /\ last_ev'.event.kind = "ContractRegistered"
             /\ Registers(last_ev'.event, s)
             => ~IsInitialized(world_remote', s)]_vars

\* A contract was registered and initialized, and is still initialized
\* after the upgrade event that came next.
C19_Witness ==
    /\ n_events = 3
    /\ Stepped
    /\ LastEvent.kind = "ContractUpgraded"
    /\ IsInitialized(world_remote, LastEvent.selector)
    /\ Len(world_remote.resources[LastEvent.selector].class_hashes) = 2

\* The last event is a ContractInitialized for a selector that is
\* registered as a namespace, model or event.  (The event changes no
\* variant, so the variant after the event is the one before it.)
WrongVariantInit ==
    /\ Stepped
    /\ LastEvent.kind = "ContractInitialized"
    /\ LastEvent.selector \in DOMAIN world_remote.resources
    /\ world_remote.resources[LastEvent.selector].variant # "Contract"

\* C20: a ContractInitialized event for a selector registered as a
\* namespace, model or event makes match_event return an error, which ends
\* the replay (no later event is handled), and leaves the remote state as
\* it was before the event.
C20_WrongVariantAborts ==
    WrongVariantInit => (status = "error" /\ ~last_changed)

\* A model was registered and upgraded, and the replay ended with the
\* error of a ContractInitialized event for its selector.
C20_Witness ==
    /\ WrongVariantInit
    /\ status = "error"
    /\ n_events = 3
    /\ world_remote.resources[LastEvent.selector].variant = "Model"
    /\ Len(world_remote.resources[LastEvent.selector].class_hashes) = 2

(***************************************************************************)
(* C30: the submission mode of the resource, permission and initialization *)
(* phases.                                                                 *)
(***************************************************************************)
ConfiguredPhases == {"sync_resources", "sync_permissions", "initialize_contracts"}

\* The configuration asks for atomic submission: no migration configuration,
\* or disable_multicall = false.
AtomicMode ==
    \/ profile_config.migration = None
    \/ profile_config.migration[1].disable_multicall = FALSE

\* The transactions that carry `calls` in the configured mode: one with all
\* of them, or one per call in queue order.
TxsInMode(calls) ==
    IF AtomicMode THEN (IF calls = <<>> THEN <<>> ELSE <<calls>>)
    ELSE [i \in 1..Len(calls) |-> <<calls[i]>>]

IsPrefix(s, t) == Len(s) <= Len(t) /\ s = SubSeq(t, 1, Len(s))

\* C30: the call transactions a resource, permission or initialization
\* phase sends, after the declarations of its classes, are its accumulated
\* calls as one multicall when no migration configuration is given or
\* disable_multicall is false, and one transaction per call in queue order
\* when disable_multicall is true; a phase that ends with a rejected
\* transaction has sent a prefix of them.
C30_SubmissionMode ==
    [][ (Len(phases') = Len(phases) + 1
         /\ phases'[Len(phases')].phase \in ConfiguredPhases
         /\ Len(submitted') >= Len(submitted) + Len(phases'[Len(phases')].classes))
        => LET ph == phases'[Len(phases')]
               invoked == SubSeq(submitted', Len(submitted) + Len(ph.classes) + 1,
                                 Len(submitted'))
           IN  IF ph.error = "none" THEN invoked = TxsInMode(ph.calls)
               ELSE IsPrefix(invoked, TxsInMode(ph.calls)) ]_vars

\* A permission phase with two grants, sent one by one under
\* disable_multicall = true.
C30_Witness ==
    /\ phases # <<>>
    /\ profile_config.migration = Some([disable_multicall |-> TRUE])
    /\ LET ph == phases[Len(phases)]
       IN  /\ ph.phase = "sync_permissions"
           /\ ph.error = "none"
           /\ Len(ph.calls) = 2
           /\ Len(submitted) >= 2
           /\ submitted[Len(submitted) - 1] = <<ph.calls[1]>>
           /\ submitted[Len(submitted)] = <<ph.calls[2]>>

\* A resource phase with several calls, sent as one multicall when no
\* migration configuration is given.
C30_WitnessMulticall ==
    /\ phases # <<>>
    /\ profile_config.migration = None
    /\ LET ph == phases[Len(phases)]
       IN  /\ ph.phase = "sync_resources"
           /\ ph.error = "none"
           /\ Len(ph.calls) >= 2
           /\ submitted # <<>>
           /\ submitted[Len(submitted)] = ph.calls

(***************************************************************************)
(* C31: the arguments of a queued initialization call.                     *)
(***************************************************************************)
\* The felt a configured argument literal denotes.
LiteralValue(lit) ==
    CASE lit = <<"0", "x", "1", "f">> -> 31
      [] lit = <<"4", "2">> -> 42
      [] OTHER -> -1

\* The configured argument list of a tag as felts, in the configured order;
\* empty without init_call_args or without an entry for the tag.
ConfiguredFelts(tag) ==
    IF profile_config.init_call_args = None THEN <<>>
    ELSE LET m == profile_config.init_call_args[1]
         IN  IF tag \notin DOMAIN m THEN <<>>
             ELSE [j \in 1..Len(m[tag]) |-> LiteralValue(m[tag][j])]

\* C31: the arguments of every queued initialization call are exactly the
\* argument list configured for the contract's tag, parsed to felts in the
\* configured order with nothing added; without a list for the tag, or
\* without init_call_args, the call is queued with no argument.
C31_InitCallArgs ==
    \A i \in InitPhase :
        \A k \in 1..Len(phases[i].calls) :
            LET c == phases[i].calls[k]
            IN  /\ c.op = "init_contract"
                /\ c.calldata = ConfiguredFelts(diff.resources[c.selector].tag)

\* An initialization call queued with the two configured arguments.
C31_Witness ==
    \E i \in InitPhase :
        /\ phases[i].calls # <<>>
        /\ phases[i].calls[1].calldata = <<31, 42>>

\* An initialization call queued with no argument: nothing is configured.
C31_WitnessNoArgs ==
    \E i \in InitPhase :
        /\ phases[i].calls # <<>>
        /\ profile_config.init_call_args = None
        /\ phases[i].calls[1].calldata = <<>>

\* An initialization call queued with no argument: the configured map has no
\* entry for the contract's tag.
C31_WitnessOtherTag ==
    \E i \in InitPhase :
        /\ phases[i].calls # <<>>
        /\ profile_config.init_call_args # None
        /\ ContractTag \notin DOMAIN profile_config.init_call_args[1]
        /\ phases[i].calls[1].calldata = <<>>

(***************************************************************************)
(* Repeated migrate runs against one world.  Every run rebuilds the remote *)
(* state with from_events from the log of the world, computes the diff of  *)
(* the local declaration against it, and runs the four phases; what a run  *)
(* lands on the world is appended to the log, one page per transaction.    *)
(* The world contract, the differ and the local declaration are outside    *)
(* the modelled files and follow the specification.                        *)
(***************************************************************************)
MaxRuns == 2            \* migrate runs in one behaviour


\* A resource of the local declaration.
ResourceLocal(rtype, tag, class_hash, owners, writers) ==
    [rtype |-> rtype, tag |-> tag, class_hash |-> class_hash,
     owners |-> owners, writers |-> writers]

\* The local declaration: a world class, the namespace "ns" with a writer,
\* and the contract "c" of the namespace with an owner.
LocalDeclaration ==
    [world_class_hash |-> 1,
     resources |-> (NsSel :> ResourceLocal("Namespace", "ns", 0, {}, {1}))
                   @@ (ContractSel :> ResourceLocal("Contract", ContractTag, 1, {1}, {}))]

Last(seq) == seq[Len(seq)]

\* World status of the diff: NotDeployed for an empty class-hash history,
\* NewVersion when the local class hash is not its last entry, else Synced.
WorldStatusOf(local, remote) ==
    IF remote.class_hashes = <<>> THEN "NotDeployed"
    ELSE IF Last(remote.class_hashes) # local.world_class_hash THEN "NewVersion"
    ELSE "Synced"

\* A classification that compares the local class hash with the first
\* entry of the remote history.
ResourceDiffOfFirstEntry(l, remote, s) ==
    IF s \notin DOMAIN remote.resources
    THEN ResourceDiff(l.rtype, "Created", l.tag, l.class_hash, FALSE)
    ELSE LET r == remote.resources[s]
             state == IF l.rtype = "Namespace" \/ Head(r.class_hashes) = l.class_hash
                      THEN "Synced" ELSE "Updated"
         IN  ResourceDiff(l.rtype, state, l.tag, l.class_hash,
                          r.variant = "Contract" /\ r.initialized)

\* Classification of a local resource against its remote counterpart.
ResourceDiffOf(l, remote, s) ==
    IF s \notin DOMAIN remote.resources
    THEN ResourceDiff(l.rtype, "Created", l.tag, l.class_hash, FALSE)
    ELSE LET r == remote.resources[s]
             state == IF l.rtype = "Namespace" \/ Last(r.class_hashes) = l.class_hash
                      THEN "Synced" ELSE "Updated"
         IN  ResourceDiff(l.rtype, state, l.tag, l.class_hash,
                          r.variant = "Contract" /\ r.initialized)

\* A differ whose only_remote sets are the whole remote sets.
WorldDiffNewRemoteWhole(local, remote) ==
    [world_status |-> WorldStatusOf(local, remote),
     world_class_hash |-> local.world_class_hash,
     namespaces |-> {s \in DOMAIN local.resources : local.resources[s].rtype = "Namespace"}
                        \cup remote.namespaces,
     resources |-> [s \in DOMAIN local.resources |->
                       ResourceDiffOf(local.resources[s], remote, s)],
     owners |-> [s \in DOMAIN local.resources |->
                    PermissionDiff(local.resources[s].owners \ OwnersOf(remote, s),
                                   OwnersOf(remote, s))],
     writers |-> [s \in DOMAIN local.resources |->
                    PermissionDiff(local.resources[s].writers \ WritersOf(remote, s),
                                   WritersOf(remote, s))]]

\* The differ: WorldDiff of a local declaration and a remote state.
WorldDiffNew(local, remote) ==
    [world_status |-> WorldStatusOf(local, remote),
     world_class_hash |-> local.world_class_hash,
     namespaces |-> {s \in DOMAIN local.resources : local.resources[s].rtype = "Namespace"}
                        \cup remote.namespaces,
     resources |-> [s \in DOMAIN local.resources |->
                       ResourceDiffOf(local.resources[s], remote, s)],
     owners |-> [s \in DOMAIN local.resources |->
                    PermissionDiff(local.resources[s].owners \ OwnersOf(remote, s),
                                   OwnersOf(remote, s) \ local.resources[s].owners)],
     writers |-> [s \in DOMAIN local.resources |->
                    PermissionDiff(local.resources[s].writers \ WritersOf(remote, s),
                                   WritersOf(remote, s) \ local.resources[s].writers)]]

\* The state of the world contract: the fold of its own log.
ChainState(log) == ReplayAll(WorldRemoteDefault, Concat(log)).world

\* Whether the world accepts a call in state cs.  A class may be declared
\* and a world deployed again (the second time changes nothing); a
\* selector is registered once, upgraded, granted on or initialized only
\* when registered, and a contract is initialized once.
CallValid(cs, call) ==
    CASE call.op \in {"declare", "deploy_via_udc"} -> TRUE
      [] call.op = "upgrade" -> cs.class_hashes # <<>>
      [] call.op = "register_namespace" ->
            cs.class_hashes # <<>> /\ call.selector \notin DOMAIN cs.resources
      [] call.op \in RegistrationOps ->
            /\ ComputeBytearrayHash(call.selector[1]) \in cs.namespaces
            /\ call.selector \notin DOMAIN cs.resources
      [] call.op \in UpgradeOps \cup {"grant_writer", "grant_owner"} ->
            call.selector \in DOMAIN cs.resources
      [] call.op = "init_contract" ->
            /\ call.selector \in DOMAIN cs.resources
            /\ cs.resources[call.selector].variant = "Contract"
            /\ ~cs.resources[call.selector].initialized
      [] OTHER -> FALSE

\* The events the world emits for an accepted call.
CallEvents(cs, call) ==
    CASE call.op = "declare" -> <<>>
      [] call.op = "deploy_via_udc" ->
            IF cs.class_hashes # <<>> THEN <<>>
            ELSE <<Raw(Ev("WorldSpawned", NoName, NoName, call.class_hash, 0,
                          NoSelector, FALSE))>>
      [] call.op = "upgrade" ->
            <<Raw(Ev("WorldUpgraded", NoName, NoName, call.class_hash, 0,
                     NoSelector, FALSE))>>
      [] call.op = "register_namespace" ->
            <<Raw(Ev("NamespaceRegistered", call.selector[1], NoName, 0, 0,
                     NoSelector, FALSE))>>
      [] call.op = "register_contract" ->
            <<Raw(Ev("ContractRegistered", call.selector[1], call.selector[2],
                     call.class_hash, 1, NoSelector, FALSE))>>
      [] call.op = "register_model" ->
            <<Raw(Ev("ModelRegistered", call.selector[1], call.selector[2],
                     call.class_hash, 1, NoSelector, FALSE))>>
      [] call.op = "register_event" ->
            <<Raw(Ev("EventRegistered", call.selector[1], call.selector[2],
                     call.class_hash, 1, NoSelector, FALSE))>>
      [] call.op = "upgrade_contract" ->
            <<Raw(Ev("ContractUpgraded", NoName, NoName, call.class_hash, 0,
                     call.selector, FALSE))>>
      [] call.op = "upgrade_model" ->
            <<Raw(Ev("ModelUpgraded", NoName, NoName, call.class_hash, 0,
                     call.selector, FALSE))>>
      [] call.op = "upgrade_event" ->
            <<Raw(Ev("EventUpgraded", NoName, NoName, call.class_hash, 0,
                     call.selector, FALSE))>>
      [] call.op = "grant_writer" ->
            <<Raw(Ev("WriterUpdated", NoName, NoName, 0, call.address,
                     call.selector, TRUE))>>
      [] call.op = "grant_owner" ->
            <<Raw(Ev("OwnerUpdated", NoName, NoName, 0, call.address,
                     call.selector, TRUE))>>
      [] OTHER ->
            <<Raw(Ev("ContractInitialized", NoName, NoName, 0, 0,
                     call.selector, FALSE))>>

\* One transaction on the world: its calls in order, all or nothing.
RECURSIVE ExecuteCalls(_, _, _)
ExecuteCalls(cs, calls, events) ==
    IF calls = <<>> THEN [ok |-> TRUE, events |-> events]
    ELSE IF ~CallValid(cs, Head(calls)) THEN [ok |-> FALSE, events |-> <<>>]
    ELSE LET evs == CallEvents(cs, Head(calls))
         IN  ExecuteCalls(ReplayAll(cs, evs).world, Tail(calls), events \o evs)

\* The log after the transactions txs landed one after the other, or
\* ok = FALSE when the world does not accept one of them.
RECURSIVE Land(_, _)
Land(log, txs) ==
    IF txs = <<>> THEN [ok |-> TRUE, log |-> log]
    ELSE LET x == ExecuteCalls(ChainState(log), Head(txs), <<>>)
         IN  IF ~x.ok THEN [ok |-> FALSE, log |-> log]
             ELSE Land(Append(log, x.events), Tail(txs))

\* The transactions of a phase that landed: all that were sent, but the
\* rejected one.
Landed(out) ==
    IF out.error = "SubmissionError" THEN SubSeq(out.sent, 1, Len(out.sent) - 1)
    ELSE out.sent

\* The remote state a run is given: the value from_events returns for the
\* log of the world.
RebuildRemote(log) ==
    LET f == FetchEvents(log)
        r == ReplayAll(WorldRemoteDefault, f.events)
    IN  [requests |-> f.requests, self |-> r.world, returned |-> FromEventsReturn(r)]

InitRetry ==
    /\ world_remote = WorldRemoteDefault
    /\ ReplayIdle
    /\ FromEventsIdle
    /\ ExecutorIdle
    /\ diff = None
    /\ profile_config \in ProfileConfigs
    /\ pc = "idle"
    /\ phases = <<>>
    /\ submitted = <<>>
    /\ result = "none"
    /\ runs = 0
    /\ world_local = LocalDeclaration

\* A run is started, the first one or one after a run that returned:
\* the remote state is rebuilt from the log and the diff computed.
StartRun ==
    /\ pc \in {"idle", "failed", "done"}
    /\ runs < MaxRuns
    /\ LET b == RebuildRemote(provider)
       IN  /\ requests' = b.requests
           /\ world_remote' = b.self
           /\ returned' = Some(b.returned)
           /\ IF b.returned.outcome = "Ok"
              THEN /\ diff' = WorldDiffNew(world_local, b.returned.value[1])
                   /\ pc' = "ensure_world"
                   /\ result' = "none"
              ELSE /\ diff' = None
                   /\ pc' = "failed"
                   /\ result' = b.returned.outcome
    /\ phases' = <<>>
    /\ submitted' = <<>>
    /\ runs' = runs + 1
    /\ UNCHANGED <<executor_vars, provider, profile_config, world_local, replay_vars>>

\* One phase of a run, and the landing of what it sent.
RetryPhase(phase, out) ==
    LET l == Land(provider, Landed(out))
    IN  /\ l.ok
        /\ provider' = l.log
        /\ phases' = Append(phases, [phase |-> phase, calls |-> out.calls,
                                     classes |-> out.classes, error |-> out.error])
        /\ submitted' = submitted \o out.sent
        /\ pc' = AfterPhase(phase, out.error, diff)
        /\ result' = ResultAfter(phase, out.error, diff)
        /\ UNCHANGED <<executor_vars, diff, profile_config, runs, world_local, world_remote, replay_vars,
                       requests, returned>>

RetryEnsureWorld ==
    /\ pc = "ensure_world"
    /\ \E out \in EnsureWorldOutcomes(diff) : RetryPhase("ensure_world", out)

RetrySyncResources ==
    /\ pc = "sync_resources"
    /\ \E order \in Orders(DOMAIN diff.resources) :
         \E out \in SyncResourcesOutcomes(diff, profile_config, order) :
            RetryPhase("sync_resources", out)

RetrySyncPermissions ==
    /\ pc = "sync_permissions"
    /\ \E order \in Orders(DOMAIN diff.resources) :
         \E address_order \in Orders({1, 2}) :
            \E out \in SyncPermissionsOutcomes(diff, profile_config, order, address_order) :
               RetryPhase("sync_permissions", out)

RetryInitializeContracts ==
    /\ pc = "initialize_contracts"
    /\ \E order \in Orders(DOMAIN diff.resources) :
         \E out \in InitializeContractsOutcomes(diff, profile_config, order) :
            RetryPhase("initialize_contracts", out)

NextRetry ==
    \/ StartRun
    \/ RetryEnsureWorld
    \/ RetrySyncResources
    \/ RetrySyncPermissions
    \/ RetryInitializeContracts

SpecRetry == InitRetry /\ [][NextRetry]_vars

\* The operation of a call is already in the state cs of the world.
AlreadyLanded(cs, call) ==
    CASE call.op \in RegistrationOps \cup {"register_namespace"} ->
            call.selector \in DOMAIN cs.resources
      [] call.op \in UpgradeOps ->
            /\ call.selector \in DOMAIN cs.resources
            /\ Last(cs.resources[call.selector].class_hashes) = call.class_hash
      [] call.op = "grant_writer" -> call.address \in WritersOf(cs, call.selector)
      [] call.op = "grant_owner" -> call.address \in OwnersOf(cs, call.selector)
      [] call.op = "init_contract" -> IsInitialized(cs, call.selector)
      [] OTHER -> FALSE

\* C17 (safety part): a phase of a run queues no registration, upgrade,
\* grant or initialization that has already landed on the world when the
\* phase starts, in a first run as in a run that retries an aborted one.
C17_RetrySkipsLanded ==
    [][Len(phases') = Len(phases) + 1 =>
          \A i \in 1..Len(Last(phases').calls) :
              ~AlreadyLanded(ChainState(provider), Last(phases').calls[i])]_vars

\* C21: an event that does not decode is skipped: the step that handles it
\* leaves the remote state as it was and the replay running.  The event
\* handled next is applied by match_event to that same state, as every
\* decodable event is, so the events after a skipped one are applied in
\* log order: from every state reached, the loop run on an undecodable
\* event followed by an event of the log ends as the loop run on that
\* event alone.
C21_DecodeFailureSkipped ==
    /\ [](\A raw \in LogEvents :
            ReplayAll(world_remote, <<Garbage, raw>>) = ReplayAll(world_remote, <<raw>>))
    /\ [][/\ ~last_ev'.decodable =>
                /\ world_remote' = world_remote
                /\ status' = "running"
                /\ expect_hist' = expect_hist
          /\ last_ev'.decodable =>
                /\ world_remote' = MatchEvent(world_remote, last_ev'.event).world
                /\ status' = StatusAfter(MatchEvent(world_remote, last_ev'.event).outcome)]_vars

\* An event that does not decode was skipped after two events that were
\* applied, and the replay is still running.
C21_Witness ==
    /\ n_events = 3
    /\ last_ev = Garbage
    /\ status = "running"
    /\ NsSel \in world_remote.namespaces
    /\ world_remote.class_hashes # <<>>

IndexOfVariant(w, variant) ==
    CASE variant = "Model" -> w.models
      [] variant = "Event" -> w.events
      [] OTHER -> w.contracts

\* The selectors listed for some namespace in the index of a variant.
Indexed(w, variant) ==
    UNION {IndexOfVariant(w, variant)[ns] : ns \in DOMAIN IndexOfVariant(w, variant)}

IndexedVariants == {"Model", "Event", "Contract"}

\* C22 as stated: every selector listed in a models, events or contracts
\* index is a key of resources and maps to a resource of the variant of
\* that index.
C22_IndexedMatchVariant ==
    \A variant \in IndexedVariants :
        \A s \in Indexed(world_remote, variant) :
            /\ s \in DOMAIN world_remote.resources
            /\ world_remote.resources[s].variant = variant

\* C22 as amended: every selector listed in a models, events or contracts
\* index is a key of resources, and it maps to a model, event or contract
\* that the index of its own variant lists; the index it is listed in is
\* the index of its variant unless the selector was registered again under
\* another kind, which leaves it listed in the index of the earlier kind.
C22_IndexedAreResources ==
    \A variant \in IndexedVariants :
        \A s \in Indexed(world_remote, variant) :
            /\ s \in DOMAIN world_remote.resources
            /\ world_remote.resources[s].variant \in IndexedVariants
            /\ s \in Indexed(world_remote, world_remote.resources[s].variant)
            /\ world_remote.resources[s].variant # variant =>
                  s \in DOMAIN expect_hist /\ n_events >= 2

\* A selector registered as a contract and then as a model: resources
\* holds the model, and both indexes list the selector.
C22_Witness ==
    \E s \in Indexed(world_remote, "Contract") :
        /\ s \in Indexed(world_remote, "Model")
        /\ world_remote.resources[s].variant = "Model"
        /\ LastEvent.kind = "ModelRegistered"

\* The selectors of the models, events and contracts of w.
Classed(w) == {s \in DOMAIN w.resources : w.resources[s].variant \in IndexedVariants}

\* History h is h0 or h0 with one element appended.
GrownByAtMostOne(h0, h) ==
    \/ h = h0
    \/ Len(h) = Len(h0) + 1 /\ SubSeq(h, 1, Len(h0)) = h0

WorldKinds == {"WorldSpawned", "WorldUpgraded"}

\* C24: a WorldSpawned or WorldUpgraded event appends its class hash to
\* the world class-hash history, and no other event changes the history:
\* the history is the class hashes of these events, one each, in log order.
C24_WorldHistory ==
    [][IF last_ev'.decodable /\ last_ev'.event.kind \in WorldKinds
       THEN world_remote'.class_hashes
               = Append(world_remote.class_hashes, last_ev'.event.class_hash)
       ELSE world_remote'.class_hashes = world_remote.class_hashes]_vars

\* The world was spawned and upgraded twice, the last time back to its
\* first class.
C24_Witness ==
    /\ n_events = 3
    /\ Stepped
    /\ LastEvent.kind = "WorldUpgraded"
    /\ Len(world_remote.class_hashes) = 3
    /\ world_remote.class_hashes[1] # world_remote.class_hashes[2]
    /\ world_remote.class_hashes[3] = world_remote.class_hashes[1]

HandledKinds ==
    WorldKinds \cup {"NamespaceRegistered", "ContractInitialized"}
        \cup RegisteredKinds \cup UpgradedKinds \cup PermissionKinds

\* C25: an event of a kind match_event does not handle leaves the whole
\* remote state unchanged; an upgrade, initialization or permission event
\* for selector S leaves the world class-hash history, the set of
\* namespaces, the models, events and contracts indexes, the set of
\* registered selectors and every resource other than S unchanged.
C25_Frame ==
    [][/\ last_ev'.decodable /\ last_ev'.event.kind \notin HandledKinds =>
             world_remote' = world_remote /\ status' = "running"
       /\ last_ev'.decodable /\ last_ev'.event.kind \in SelectorKinds =>
             /\ world_remote'.class_hashes = world_remote.class_hashes
             /\ world_remote'.namespaces = world_remote.namespaces
             /\ world_remote'.models = world_remote.models
             /\ world_remote'.events = world_remote.events
             /\ world_remote'.contracts = world_remote.contracts
             /\ DOMAIN world_remote'.resources = DOMAIN world_remote.resources
             /\ \A s \in DOMAIN world_remote.resources :
                   s # last_ev'.event.selector =>
                       world_remote'.resources[s] = world_remote.resources[s]]_vars

\* An owner was granted on a contract next to a registered namespace: the
\* contract changed and the namespace has no owner.
C25_Witness ==
    /\ n_events = 3
    /\ Stepped
    /\ LastEvent.kind = "OwnerUpdated"
    /\ LastEvent.selector = ContractSel
    /\ last_changed
    /\ NsSel \in DOMAIN world_remote.resources
    /\ world_remote.resources[NsSel].owners = {}
    /\ world_remote.resources[ContractSel].owners # {}

\* An event of a kind match_event does not handle came after a
\* registration and changed nothing.
C25_WitnessOtherKind ==
    /\ n_events = 2
    /\ Stepped
    /\ LastEvent.kind = "StoreSetRecord"
    /\ ~last_changed
    /\ world_remote # WorldRemoteDefault

(***************************************************************************)
(* The differ on its own: a local declaration and a remote state that a    *)
(* replay can build are given, and the diff is computed once.              *)
(***************************************************************************)
MaxDiffLog == 4         \* events of the logs that build the remote states

\* The events of the logs the remote states are built from.
DiffLogEvents ==
    {Raw(Ev("WorldSpawned", NoName, NoName, 1, 0, NoSelector, FALSE)),
     Raw(Ev("WorldUpgraded", NoName, NoName, 2, 0, NoSelector, FALSE)),
     Raw(Ev("NamespaceRegistered", "ns", NoName, 0, 0, NoSelector, FALSE)),
     Raw(Ev("ContractRegistered", "ns", "c", 1, 1, NoSelector, FALSE)),
     Raw(Ev("ContractUpgraded", NoName, NoName, 2, 0, ContractSel, FALSE)),
     Raw(Ev("ModelRegistered", "ns", "m", 2, 1, NoSelector, FALSE)),
     Raw(Ev("OwnerUpdated", NoName, NoName, 0, 2, ContractSel, TRUE)),
     Raw(Ev("OwnerUpdated", NoName, NoName, 0, 3, ContractSel, TRUE)),
     Raw(Ev("WriterUpdated", NoName, NoName, 0, 1, NsSel, TRUE)),
     Raw(Ev("ContractInitialized", NoName, NoName, 0, 0, ContractSel, FALSE))}

DiffLogs == UNION {[1..k -> DiffLogEvents] : k \in 0..MaxDiffLog}

\* The remote states a replay without error builds from these logs.
RemoteStates ==
    {ReplayAll(WorldRemoteDefault, log).world :
        log \in {l \in DiffLogs : ReplayAll(WorldRemoteDefault, l).outcome = "Ok"}}

\* Local declarations: the namespace "ns", with or without the contract
\* "c" of the namespace.
LocalDeclarations ==
    {[world_class_hash |-> wc,
      resources |-> (NsSel :> ResourceLocal("Namespace", "ns", 0, {}, nw))] :
        wc \in ClassHashes, nw \in {{}, {1}}}
    \cup
    {[world_class_hash |-> wc,
      resources |-> (NsSel :> ResourceLocal("Namespace", "ns", 0, {}, nw))
                    @@ (ContractSel :> ResourceLocal("Contract", ContractTag, cc, co, {}))] :
        wc \in ClassHashes, nw \in {{}, {1}}, cc \in ClassHashes, co \in {{}, {1, 2}}}

InitDiff ==
    /\ world_remote \in RemoteStates
    /\ ReplayIdle
    /\ FromEventsIdle
    /\ ExecutorIdle
    /\ diff = None
    /\ profile_config = None
    /\ pc = "idle"
    /\ phases = <<>>
    /\ submitted = <<>>
    /\ result = "none"
    /\ runs = 0
    /\ world_local \in LocalDeclarations

\* WorldDiff::new(local, remote)
ComputeDiff ==
    /\ diff = None
    /\ diff' = WorldDiffNew(world_local, world_remote)
    /\ UNCHANGED <<executor_vars, world_remote, replay_vars, from_events_vars, profile_config, pc,
                   phases, submitted, result, runs, world_local>>

NextDiff == ComputeDiff

SpecDiff == InitDiff /\ [][NextDiff]_vars

\* C26: the diff classifies exactly the resources of the local
\* declaration.  A resource is Created iff its selector has no remote
\* counterpart; a model, event or contract with a remote counterpart is
\* Synced iff its local class hash is the last entry of the remote
\* history, and Updated iff it is not; a namespace with a remote
\* counterpart is Synced.  A selector that is only remote is in no entry
\* of the diff.
C26_Classification ==
    diff # None =>
        /\ DOMAIN diff.resources = DOMAIN world_local.resources
        /\ \A s \in DOMAIN world_local.resources :
              LET l == world_local.resources[s]
                  state == diff.resources[s].state
              IN  /\ state \in {"Created", "Synced", "Updated"}
                  /\ state = "Created" <=> s \notin DOMAIN world_remote.resources
                  /\ s \in DOMAIN world_remote.resources /\ l.rtype # "Namespace" =>
                        LET h == world_remote.resources[s].class_hashes
                        IN  /\ state = "Synced" <=> h[Len(h)] = l.class_hash
                            /\ state = "Updated" <=> h[Len(h)] # l.class_hash
                  /\ s \in DOMAIN world_remote.resources /\ l.rtype = "Namespace" =>
                        state = "Synced"
        /\ \A s \in DOMAIN world_remote.resources :
              s \notin DOMAIN world_local.resources => s \notin DOMAIN diff.resources

\* The diff of a contract whose local class hash is the first entry of a
\* remote history of two: it is Updated, its namespace is Synced, and a
\* model that is only remote is not in the diff.
C26_Witness ==
    /\ diff # None
    /\ ContractSel \in DOMAIN diff.resources
    /\ diff.resources[ContractSel].state = "Updated"
    /\ diff.resources[NsSel].state = "Synced"
    /\ Len(world_remote.resources[ContractSel].class_hashes) = 2
    /\ world_remote.resources[ContractSel].class_hashes[1]
          = world_local.resources[ContractSel].class_hash
    /\ OtherSel \in DOMAIN world_remote.resources

\* The remote owners and writers of s: empty sets when the remote state
\* has no entry for s.
RemoteOwners(s) ==
    IF s \in DOMAIN world_remote.resources THEN world_remote.resources[s].owners ELSE {}

RemoteWriters(s) ==
    IF s \in DOMAIN world_remote.resources THEN world_remote.resources[s].writers ELSE {}

\* C27: for every resource of the local declaration the permission delta
\* is the set difference in both directions, for owners and for writers:
\* only_local is the local set minus the remote set and only_remote the
\* remote set minus the local set, so the two are disjoint and no address
\* of both sets is in either; a resource without remote entry has the
\* differences against empty sets.
C27_PermissionDelta ==
    diff # None =>
        \A s \in DOMAIN world_local.resources :
            LET l == world_local.resources[s]
            IN  /\ diff.owners[s].only_local = l.owners \ RemoteOwners(s)
                /\ diff.owners[s].only_remote = RemoteOwners(s) \ l.owners
                /\ diff.writers[s].only_local = l.writers \ RemoteWriters(s)
                /\ diff.writers[s].only_remote = RemoteWriters(s) \ l.writers
                /\ diff.owners[s].only_local \cap diff.owners[s].only_remote = {}
                /\ diff.writers[s].only_local \cap diff.writers[s].only_remote = {}
                /\ s \notin DOMAIN world_remote.resources =>
                      /\ diff.owners[s].only_local = l.owners
                      /\ diff.owners[s].only_remote = {}
                      /\ diff.writers[s].only_local = l.writers
                      /\ diff.writers[s].only_remote = {}

\* Local owners {1, 2} against remote owners {2, 3}: 1 is only local and
\* 3 only remote.
C27_Witness ==
    /\ diff # None
    /\ ContractSel \in DOMAIN diff.resources
    /\ world_local.resources[ContractSel].owners = {1, 2}
    /\ RemoteOwners(ContractSel) = {2, 3}
    /\ diff.owners[ContractSel].only_local = {1}
    /\ diff.owners[ContractSel].only_remote = {3}

\* Local owners {1, 2} of a contract that has no remote entry: both are
\* only local.
C27_WitnessNoRemoteEntry ==
    /\ diff # None
    /\ ContractSel \in DOMAIN diff.resources
    /\ ContractSel \notin DOMAIN world_remote.resources
    /\ diff.owners[ContractSel].only_local = {1, 2}


(***************************************************************************)
(* katana executor: StarknetVMProcessor, the block executor built on the   *)
(* blockifier's TransactionExecutor.                                       *)
(***************************************************************************)
MaxTxs == 2   \* transactions handed to one executor over its life

\* ExecutableTxWithHash: an invoke and a declare of class 1 with its artifacts.
ExecutableTxs ==
    { [hash |-> 1, kind |-> "Invoke", class_hash |-> None, compiled_class |-> None],
      [hash |-> 2, kind |-> "Declare", class_hash |-> Some(1),
       compiled_class |-> Some("casm")] }

\* TxWithHash::from: the transaction without the class artifacts.
TxWithHashFrom(tx) == [hash |-> tx.hash, kind |-> tx.kind, class_hash |-> tx.class_hash]

\* TransactionExecutionInfo: the receipt's fee (0 when no fee was charged),
\* the l1 gas, the cairo steps and the revert error of an executed transaction.
TransactionExecutionInfos ==
    { [fee |-> 0, l1_gas |-> 1, n_steps |-> 2, revert_error |-> None],
      [fee |-> 7, l1_gas |-> 2, n_steps |-> 3, revert_error |-> Some("reverted")] }

TransactionExecutorErrors == {"StateError", "TransactionExecutionError", "BlockFull"}

\* TransactionExecutorResult<TransactionExecutionInfo>
ExecutorResults ==
    {[ok |-> TRUE, info |-> i, error |-> "none"] : i \in TransactionExecutionInfos}
    \cup {[ok |-> FALSE, info |-> None, error |-> e] : e \in TransactionExecutorErrors}

\* What the virtual machine does with each transaction of a batch of length n.
Verdicts(n) == [1..n -> ExecutorResults]

RECURSIVE FirstBlockFull(_, _)
FirstBlockFull(vm, i) ==
    IF i > Len(vm) THEN i
    ELSE IF ~vm[i].ok /\ vm[i].error = "BlockFull" THEN i
    ELSE FirstBlockFull(vm, i + 1)

\* TransactionExecutor::execute_txs: the results the engine may hand back.  It
\* runs the transactions in order and stops at the first one that does not fit
\* in the block, with or without reporting that one.
ExecuteTxs(vm) ==
    LET k == FirstBlockFull(vm, 1)
    IN  IF k > Len(vm) THEN {vm}
        ELSE {SubSeq(vm, 1, k - 1), SubSeq(vm, 1, k)}

\* get_fee_by_gas_vector for FeeType::Eth, the gas vector holding l1 gas only.
GetFeeByGasVector(block_info, l1_gas) == l1_gas * block_info.eth_l1_gas_price

\* TxFeeInfo of lines 208-238.
FeeInfo(block_info, info) ==
    [gas_consumed |-> info.l1_gas,
     gas_price |-> block_info.eth_l1_gas_price,
     unit |-> "Wei",
     overall_fee |-> IF info.fee = 0 THEN GetFeeByGasVector(block_info, info.l1_gas)
                     ELSE info.fee]

\* build_receipt over the trace of the transaction.
BuildReceipt(tx, fee_info, info) ==
    [fee |-> fee_info, n_steps |-> info.n_steps, revert_reason |-> info.revert_error]

NewSuccess(receipt) == [kind |-> "Success", receipt |-> receipt, error |-> "none"]
NewFailed(e) == [kind |-> "Failed", receipt |-> None, error |-> e]

StatsDefault == [l1_gas_used |-> 0, cairo_steps_used |-> 0]

\* The loop of execute_transactions with a break at the first failed result.
RECURSIVE ProcessResultsStopsAtFailure(_, _, _, _, _)
ProcessResultsStopsAtFailure(results, txs, block_info, i, acc) ==
    IF i > Len(results) \/ i > Len(txs) THEN acc
    ELSE LET res == results[i]
             tx == txs[i]
         IN  IF res.ok
             THEN LET receipt == BuildReceipt(tx, FeeInfo(block_info, res.info), res.info)
                  IN  ProcessResultsStopsAtFailure(results, txs, block_info, i + 1,
                          [execution_results |->
                              Append(acc.execution_results, NewSuccess(receipt)),
                           stats |->
                              [l1_gas_used |->
                                  acc.stats.l1_gas_used + receipt.fee.gas_consumed,
                               cairo_steps_used |->
                                  acc.stats.cairo_steps_used + receipt.n_steps],
                           declared_classes |->
                              IF tx.kind = "Declare"
                              THEN acc.declared_classes \cup {tx.class_hash[1]}
                              ELSE acc.declared_classes])
             ELSE acc

\* The loop of execute_transactions recording a block-full result as a
\* failure and going on.
RECURSIVE ProcessResultsRecordsBlockFull(_, _, _, _, _)
ProcessResultsRecordsBlockFull(results, txs, block_info, i, acc) ==
    IF i > Len(results) \/ i > Len(txs) THEN acc
    ELSE LET res == results[i]
             tx == txs[i]
         IN  IF res.ok
             THEN LET receipt == BuildReceipt(tx, FeeInfo(block_info, res.info), res.info)
                  IN  ProcessResultsRecordsBlockFull(results, txs, block_info, i + 1,
                          [execution_results |->
                              Append(acc.execution_results, NewSuccess(receipt)),
                           stats |->
                              [l1_gas_used |->
                                  acc.stats.l1_gas_used + receipt.fee.gas_consumed,
                               cairo_steps_used |->
                                  acc.stats.cairo_steps_used + receipt.n_steps],
                           declared_classes |->
                              IF tx.kind = "Declare"
                              THEN acc.declared_classes \cup {tx.class_hash[1]}
                              ELSE acc.declared_classes])
             ELSE ProcessResultsRecordsBlockFull(results, txs, block_info, i + 1,
                      [acc EXCEPT !.execution_results = Append(@, NewFailed(res.error))])

\* The loop of execute_transactions (lines 195-279) over zip(results,
\* transactions), from position i with the accumulated execution_results,
\* stats and declared classes.
RECURSIVE ProcessResults(_, _, _, _, _)
ProcessResults(results, txs, block_info, i, acc) ==
    IF i > Len(results) \/ i > Len(txs) THEN acc
    ELSE LET res == results[i]
             tx == txs[i]
         IN  IF res.ok
             THEN LET receipt == BuildReceipt(tx, FeeInfo(block_info, res.info), res.info)
                  IN  ProcessResults(results, txs, block_info, i + 1,
                          [execution_results |->
                              Append(acc.execution_results, NewSuccess(receipt)),
                           stats |->
                              [l1_gas_used |->
                                  acc.stats.l1_gas_used + receipt.fee.gas_consumed,
                               cairo_steps_used |->
                                  acc.stats.cairo_steps_used + receipt.n_steps],
                           declared_classes |->
                              IF tx.kind = "Declare"
                              THEN acc.declared_classes \cup {tx.class_hash[1]}
                              ELSE acc.declared_classes])
             ELSE IF res.error \in {"StateError", "TransactionExecutionError"}
             THEN ProcessResults(results, txs, block_info, i + 1,
                      [acc EXCEPT !.execution_results = Append(@, NewFailed(res.error))])
             ELSE acc

\* txs.into_iter().zip(execution_results).collect() of line 324.
ZipTransactions(txs, execution_results) ==
    LET n == IF Len(txs) < Len(execution_results) THEN Len(txs)
             ELSE Len(execution_results)
    IN  [i \in 1..n |-> [tx |-> TxWithHashFrom(txs[i]), result |-> execution_results[i]]]

\* PartialHeader values handed to execute_block.
Headers ==
    { [number |-> 1, timestamp |-> 10, sequencer_address |-> 1,
       gas_prices |-> [eth |-> 2, strk |-> 0]],
      [number |-> 2, timestamp |-> 20, sequencer_address |-> 2,
       gas_prices |-> [eth |-> 0, strk |-> 3]] }

\* A gas price taken from the header as it is.
NonZeroOrOneUnchecked(p) == p

\* utils::to_blk_address and utils::to_address: the address wrapped as the
\* engine's ContractAddress, and back.
ToBlkAddress(a) == [patricia_key |-> a]
ToAddress(b) == b.patricia_key

\* NonZeroU128::new(p).unwrap_or(NonZeroU128::new(1).unwrap())
NonZeroOrOne(p) == IF p = 0 THEN 1 ELSE p

\* fill_block_env_from_header: the block context built from a header.
FillBlockEnvFromHeader(header) ==
    [number |-> header.number,
     timestamp |-> header.timestamp,
     sequencer_address |-> ToBlkAddress(header.sequencer_address),
     eth_l1_gas_price |-> NonZeroOrOne(header.gas_prices.eth),
     strk_l1_gas_price |-> NonZeroOrOne(header.gas_prices.strk),
     eth_l1_data_gas_price |-> NonZeroOrOne(header.gas_prices.eth),
     strk_l1_data_gas_price |-> NonZeroOrOne(header.gas_prices.strk),
     use_kzg_da |-> FALSE]

\* The block context StarknetVMProcessor::new builds from its BlockEnv.
InitialBlockContext ==
    [number |-> 0, timestamp |-> 0, sequencer_address |-> ToBlkAddress(0),
     eth_l1_gas_price |-> 1, strk_l1_gas_price |-> 1,
     eth_l1_data_gas_price |-> 1, strk_l1_data_gas_price |-> 1,
     use_kzg_da |-> FALSE]

\* Executor::block_env on the block context ctx.
BlockEnv(ctx) ==
    [number |-> ctx.number,
     timestamp |-> ctx.timestamp,
     sequencer_address |-> ToAddress(ctx.sequencer_address),
     l1_gas_prices |-> [eth |-> ctx.eth_l1_gas_price, strk |-> ctx.strk_l1_gas_price]]

\* StarknetVMProcessor::new
InitExecutor ==
    /\ world_remote = WorldRemoteDefault
    /\ ReplayIdle
    /\ FromEventsIdle
    /\ MigrateIdle
    /\ transactions = <<>>
    /\ stats = StatsDefault
    /\ declared_classes = {}
    /\ block_context = InitialBlockContext
    /\ exec_last = [op |-> "new", transactions |-> <<>>, vm |-> <<>>, results |-> <<>>,
                    header |-> None, ret |-> None, output |-> None]
    /\ n_submitted = 0
    /\ ledger = <<>>
    /\ sim_last = None

\* What execute_txs writes to the ledger state: the transactions it executed
\* with an Ok result, in order.
RECURSIVE Apply(_, _, _, _)
Apply(l, txs, results, i) ==
    IF i > Len(results) \/ i > Len(txs) THEN l
    ELSE Apply(IF results[i].ok THEN Append(l, txs[i].hash) ELSE l, txs, results, i + 1)

\* The body of execute_transactions under the block context block_info.
RunTransactions(op, header, block_info, txs, vm, results) ==
    LET acc == ProcessResults(results, txs, block_info, 1,
                   [execution_results |-> <<>>, stats |-> stats,
                    declared_classes |-> declared_classes])
    IN  /\ transactions' = ZipTransactions(txs, acc.execution_results)
        /\ stats' = acc.stats
        /\ declared_classes' = acc.declared_classes
        /\ block_context' = block_info
        /\ exec_last' = [op |-> op, transactions |-> txs, vm |-> vm, results |-> results,
                         header |-> header, ret |-> Some("Ok"), output |-> None]
        /\ n_submitted' = n_submitted + Len(txs)
        /\ ledger' = Apply(ledger, txs, results, 1)
        /\ sim_last' = None
        /\ UNCHANGED <<world_remote, replay_vars, from_events_vars, migrate_vars>>

\* A panic unwinds out of the processor: no later call is modelled.
Alive == exec_last.ret # Some("Panic")

\* Executor::execute_transactions
ExecuteTransactions ==
    /\ Alive
    /\ \E n \in 0..(MaxTxs - n_submitted) :
         \E txs \in [1..n -> ExecutableTxs], vm \in Verdicts(n) :
            \E results \in ExecuteTxs(vm) :
                RunTransactions("execute_transactions", None, block_context,
                                txs, vm, results)

\* Executor::execute_block
ExecuteBlock ==
    /\ Alive
    /\ \E header \in Headers, n \in 0..(MaxTxs - n_submitted) :
         \E txs \in [1..n -> ExecutableTxs], vm \in Verdicts(n) :
            \E results \in ExecuteTxs(vm) :
                RunTransactions("execute_block", Some(header),
                                FillBlockEnvFromHeader(header), txs, vm, results)

\* TransactionExecutor::finalize: the engine closes the block, or fails.
Finalize == {"Ok", "Err"}

\* A take_execution_output that hands the statistics over without resetting
\* them.
TakeExecutionOutputKeepsStats ==
    /\ Alive
    /\ \E fin \in Finalize :
         IF fin = "Ok"
         THEN /\ transactions' = <<>>
              /\ stats' = stats
              /\ exec_last' = [op |-> "take_execution_output", transactions |-> <<>>,
                               vm |-> <<>>, results |-> <<>>, header |-> None,
                               ret |-> Some("Ok"),
                               output |-> Some([stats |-> stats,
                                                transactions |-> transactions])]
         ELSE /\ exec_last' = [op |-> "take_execution_output", transactions |-> <<>>,
                               vm |-> <<>>, results |-> <<>>, header |-> None,
                               ret |-> Some("Panic"), output |-> None]
              /\ UNCHANGED <<transactions, stats>>
    /\ sim_last' = None
    /\ UNCHANGED <<declared_classes, block_context, n_submitted, ledger>>
    /\ UNCHANGED <<world_remote, replay_vars, from_events_vars, migrate_vars>>

\* Executor::take_execution_output: finalize().unwrap() panics on an error of
\* the engine, before anything is taken; else the transactions and the
\* statistics are moved out with std::mem::take.
TakeExecutionOutput ==
    /\ Alive
    /\ \E fin \in Finalize :
         IF fin = "Ok"
         THEN /\ transactions' = <<>>
              /\ stats' = StatsDefault
              /\ exec_last' = [op |-> "take_execution_output", transactions |-> <<>>,
                               vm |-> <<>>, results |-> <<>>, header |-> None,
                               ret |-> Some("Ok"),
                               output |-> Some([stats |-> stats,
                                                transactions |-> transactions])]
         ELSE /\ exec_last' = [op |-> "take_execution_output", transactions |-> <<>>,
                               vm |-> <<>>, results |-> <<>>, header |-> None,
                               ret |-> Some("Panic"), output |-> None]
              /\ UNCHANGED <<transactions, stats>>
    /\ sim_last' = None
    /\ UNCHANGED <<declared_classes, block_context, n_submitted, ledger>>
    /\ UNCHANGED <<world_remote, replay_vars, from_events_vars, migrate_vars>>

\* What utils::transact does with one transaction: success or failure, never
\* block-full, since it runs outside the engine's block.
TransactVerdicts(n) ==
    [1..n -> {v \in ExecutorResults : v.ok \/ v.error # "BlockFull"}]

\* utils::transact on the scratch state: the ExecutionResult of the
\* transaction and the scratch state after it.
Transact(scratch, block_info, tx, v) ==
    IF v.ok
    THEN [result |-> NewSuccess(BuildReceipt(tx, FeeInfo(block_info, v.info), v.info)),
          state |-> Append(scratch, tx.hash)]
    ELSE [result |-> NewFailed(v.error), state |-> scratch]

\* The closure of ExecutorExt::simulate.
SimulateOp(res) == [result |-> res, states |-> "default"]

\* The closure of ExecutorExt::estimate_fee.
EstimateFeeOp(res) ==
    IF res.kind = "Success"
    THEN IF res.receipt.revert_reason # None
         THEN [ok |-> FALSE, fee |-> None, error |-> "TransactionReverted"]
         ELSE [ok |-> TRUE, fee |-> Some(res.receipt.fee), error |-> "none"]
    ELSE [ok |-> FALSE, fee |-> None, error |-> res.error]

\* A simulate_with whose scratch state is written back to the ledger state.
RECURSIVE SimulateWithCommitting(_, _, _, _, _, _)
SimulateWithCommitting(op, scratch, txs, vm, i, results) ==
    IF i > Len(txs) THEN [results |-> results, ledger |-> scratch]
    ELSE LET t == Transact(scratch, block_context, txs[i], vm[i])
         IN  SimulateWithCommitting(op, t.state, txs, vm, i + 1,
                 Append(results, IF op = "simulate" THEN SimulateOp(t.result)
                                 ELSE EstimateFeeOp(t.result)))

\* simulate_with: the transactions run in order on a scratch state over the
\* ledger state, one result pushed per transaction; the scratch state is
\* dropped at the end.
RECURSIVE SimulateWith(_, _, _, _, _, _)
SimulateWith(op, scratch, txs, vm, i, results) ==
    IF i > Len(txs) THEN [results |-> results, ledger |-> ledger]
    ELSE LET t == Transact(scratch, block_context, txs[i], vm[i])
         IN  SimulateWith(op, t.state, txs, vm, i + 1,
                 Append(results, IF op = "simulate" THEN SimulateOp(t.result)
                                 ELSE EstimateFeeOp(t.result)))

\* A call of simulate_with through simulate or estimate_fee.
RunSimulation(op, txs, vm) ==
    LET s == SimulateWith(op, ledger, txs, vm, 1, <<>>)
    IN  /\ sim_last' = Some([op |-> op, transactions |-> txs, vm |-> vm,
                             results |-> s.results])
        /\ ledger' = s.ledger
        /\ n_submitted' = n_submitted + Len(txs)
        /\ UNCHANGED <<transactions, stats, declared_classes, block_context, exec_last>>
        /\ UNCHANGED <<world_remote, replay_vars, from_events_vars, migrate_vars>>

\* ExecutorExt::simulate
Simulate ==
    /\ Alive
    /\ \E n \in 0..(MaxTxs - n_submitted) :
         \E txs \in [1..n -> ExecutableTxs], vm \in TransactVerdicts(n) :
            RunSimulation("simulate", txs, vm)

\* ExecutorExt::estimate_fee
EstimateFee ==
    /\ Alive
    /\ \E n \in 0..(MaxTxs - n_submitted) :
         \E txs \in [1..n -> ExecutableTxs], vm \in TransactVerdicts(n) :
            RunSimulation("estimate_fee", txs, vm)

NextExecutor ==
    ExecuteTransactions \/ ExecuteBlock \/ TakeExecutionOutput \/ Simulate \/ EstimateFee

SpecExecutor == InitExecutor /\ [][NextExecutor]_vars

(***************************************************************************)
(* C28: one result per transaction of a batch.                             *)
(***************************************************************************)
ExecutedBatch == exec_last.op \in {"execute_transactions", "execute_block"}

HitsBlockFull ==
    \E i \in 1..Len(exec_last.vm) :
        ~exec_last.vm[i].ok /\ exec_last.vm[i].error = "BlockFull"

\* The recorded result r is the outcome vm of the transaction tx.
OwnOutcome(r, tx, v) ==
    IF v.ok
    THEN /\ r.kind = "Success"
         /\ r.receipt.fee.gas_consumed = v.info.l1_gas
         /\ r.receipt.n_steps = v.info.n_steps
         /\ r.receipt.revert_reason = v.info.revert_error
    ELSE /\ r.kind = "Failed"
         /\ r.error = v.error

\* C28: after execute_transactions(txs) in which no transaction hits the
\* block-full condition, transactions() has exactly |txs| entries, the i-th
\* entry pairs the i-th submitted transaction with its own outcome, and a
\* failed transaction does not keep the later ones from being executed
\* (their declared classes are stored) and recorded.
C28_OneResultPerTransaction ==
    (ExecutedBatch /\ ~HitsBlockFull) =>
        /\ exec_last.ret = Some("Ok")
        /\ Len(transactions) = Len(exec_last.transactions)
        /\ \A i \in 1..Len(exec_last.transactions) :
               /\ transactions[i].tx.hash = exec_last.transactions[i].hash
               /\ transactions[i].tx.kind = exec_last.transactions[i].kind
               /\ OwnOutcome(transactions[i].result, exec_last.transactions[i],
                             exec_last.vm[i])
               /\ (exec_last.vm[i].ok /\ exec_last.transactions[i].kind = "Declare")
                      => exec_last.transactions[i].class_hash[1] \in declared_classes

\* A batch of two without block-full whose first transaction fails and whose
\* second, a declare, succeeds.
C28_Witness ==
    /\ exec_last.op = "execute_transactions"
    /\ ~HitsBlockFull
    /\ Len(exec_last.transactions) = 2
    /\ ~exec_last.vm[1].ok
    /\ exec_last.vm[2].ok
    /\ exec_last.transactions[2].kind = "Declare"
    /\ Len(transactions) = 2
    /\ transactions[1].result.kind = "Failed"
    /\ transactions[2].result.kind = "Success"


(***************************************************************************)
(* C32: the recorded transactions across calls.                            *)
(***************************************************************************)
\* The transactions of a batch that were executed: those before the first
\* one that hits the block-full condition.
NumExecuted(vm) == FirstBlockFull(vm, 1) - 1

\* The step is a call of execute_transactions or execute_block.
ExecutionStep ==
    exec_last'.op \in {"execute_transactions", "execute_block"} /\ sim_last' = None

\* C32: every execute_transactions or execute_block call appends the
\* transactions it executed, in order and each with its result, to the
\* recorded list, which therefore lists every transaction executed since
\* construction or the last take_execution_output.
C32_Accumulates ==
    [][ ExecutionStep
        => /\ IsPrefix(transactions, transactions')
           /\ Len(transactions') = Len(transactions) + NumExecuted(exec_last'.vm)
           /\ \A i \in 1..NumExecuted(exec_last'.vm) :
                 /\ Len(transactions) + i <= Len(transactions')
                 /\ transactions'[Len(transactions) + i].tx.hash
                        = exec_last'.transactions[i].hash ]_vars


(***************************************************************************)
(* C33: a batch that hits the block-full condition.                        *)
(***************************************************************************)
IsBlockFull(v) == ~v.ok /\ v.error = "BlockFull"

\* C33: when the k-th transaction of a batch is the first to hit the
\* block-full condition, execute_transactions returns Ok and the recorded
\* list is the k-1 transactions before it, each paired with its own result;
\* neither the k-th transaction nor a later one is recorded.
C33_BlockFullStops ==
    ExecutedBatch =>
        \A k \in 1..Len(exec_last.vm) :
            (IsBlockFull(exec_last.vm[k])
             /\ \A j \in 1..(k - 1) : ~IsBlockFull(exec_last.vm[j]))
            => /\ exec_last.ret = Some("Ok")
               /\ Len(transactions) = k - 1
               /\ \A i \in 1..(k - 1) :
                     /\ transactions[i].tx.hash = exec_last.transactions[i].hash
                     /\ transactions[i].tx.kind = exec_last.transactions[i].kind
                     /\ OwnOutcome(transactions[i].result, exec_last.transactions[i],
                                   exec_last.vm[i])
               /\ \A i \in 1..Len(transactions) : transactions[i].result.error # "BlockFull"

\* A batch of two whose second transaction hits block-full: the first alone
\* is recorded.
C33_Witness ==
    /\ ExecutedBatch
    /\ Len(exec_last.vm) = 2
    /\ exec_last.vm[1].ok
    /\ IsBlockFull(exec_last.vm[2])
    /\ Len(transactions) = 1

\* A batch of two whose first transaction hits block-full and whose second
\* would have succeeded: nothing is recorded.
C33_WitnessNothingRecorded ==
    /\ ExecutedBatch
    /\ Len(exec_last.vm) = 2
    /\ IsBlockFull(exec_last.vm[1])
    /\ exec_last.vm[2].ok
    /\ transactions = <<>>


(***************************************************************************)
(* C34: take_execution_output hands the record over and resets it.         *)
(***************************************************************************)
\* The l1 gas and the cairo steps of the first n transactions of a batch,
\* counting those the engine executed with success (reverted or not).
RECURSIVE GasOfSuccessful(_, _)
GasOfSuccessful(vm, n) ==
    IF n = 0 THEN 0
    ELSE GasOfSuccessful(vm, n - 1) + (IF vm[n].ok THEN vm[n].info.l1_gas ELSE 0)

RECURSIVE StepsOfSuccessful(_, _)
StepsOfSuccessful(vm, n) ==
    IF n = 0 THEN 0
    ELSE StepsOfSuccessful(vm, n - 1) + (IF vm[n].ok THEN vm[n].info.n_steps ELSE 0)

Took(e) == e.op = "take_execution_output" /\ e.ret = Some("Ok")

\* C34: a take_execution_output that returns hands over the recorded
\* transactions and the statistics accumulated so far and leaves the record
\* empty and the statistics zero, which they stay until the next execution;
\* an execution adds the l1 gas and the cairo steps of its successful
\* transactions, and of no other, to the statistics.
C34_TakeResets ==
    /\ [](Took(exec_last) => transactions = <<>> /\ stats = StatsDefault)
    /\ [][ Took(exec_last') /\ sim_last' = None
           => /\ exec_last'.output = Some([stats |-> stats, transactions |-> transactions])
              /\ transactions' = <<>>
              /\ stats' = [l1_gas_used |-> 0, cairo_steps_used |-> 0] ]_vars
    /\ [][ ExecutionStep
           => LET vm == exec_last'.vm
                  n == NumExecuted(vm)
              IN  /\ stats'.l1_gas_used = stats.l1_gas_used + GasOfSuccessful(vm, n)
                  /\ stats'.cairo_steps_used
                         = stats.cairo_steps_used + StepsOfSuccessful(vm, n) ]_vars

\* A take after a batch of a successful and a failed transaction: the output
\* carries both and the gas and steps of the first; the record is empty again.
C34_Witness ==
    /\ Took(exec_last)
    /\ Len(exec_last.output[1].transactions) = 2
    /\ exec_last.output[1].transactions[1].result.kind = "Success"
    /\ exec_last.output[1].transactions[2].result.kind = "Failed"
    /\ exec_last.output[1].stats = [l1_gas_used |-> 1, cairo_steps_used |-> 2]
    /\ transactions = <<>>
    /\ stats = StatsDefault


(***************************************************************************)
(* C35: the block environment after execute_block.                         *)
(***************************************************************************)
\* A header price as block_env() is to report it: 0 is reported as 1.
ReportedPrice(p) == IF p = 0 THEN 1 ELSE p

\* C35: after execute_block(block), and until the next execute_block,
\* block_env() reports the number, the timestamp and the sequencer address of
\* block.header and, for ETH and for STRK, the header's L1 gas price with 0
\* reported as 1; the reported gas prices are never 0.
C35_BlockEnv ==
    /\ [](exec_last.op = "execute_block" =>
            LET header == exec_last.header[1]
                env == BlockEnv(block_context)
            IN  /\ env.number = header.number
                /\ env.timestamp = header.timestamp
                /\ env.sequencer_address = header.sequencer_address
                /\ env.l1_gas_prices.eth = ReportedPrice(header.gas_prices.eth)
                /\ env.l1_gas_prices.strk = ReportedPrice(header.gas_prices.strk)
                /\ env.l1_gas_prices.eth # 0
                /\ env.l1_gas_prices.strk # 0)
    /\ [][(exec_last'.op # "execute_block" \/ sim_last' # None)
            => block_context' = block_context]_vars

\* A block whose header has ETH price 0 and STRK price 3: block_env() reports
\* 1 and 3.
C35_Witness ==
    /\ exec_last.op = "execute_block"
    /\ exec_last.header[1].gas_prices = [eth |-> 0, strk |-> 3]
    /\ exec_last.header[1].number = 2
    /\ BlockEnv(block_context).l1_gas_prices = [eth |-> 1, strk |-> 3]
    /\ BlockEnv(block_context).number = 2


(***************************************************************************)
(* C36: simulate and estimate_fee are read-only.                           *)
(***************************************************************************)
\* The i-th result of a simulation is that of the i-th input transaction.
SimulatedResult(s, i) ==
    IF s.op = "simulate"
    THEN OwnOutcome(s.results[i].result, s.transactions[i], s.vm[i])
    ELSE IF s.vm[i].ok /\ s.vm[i].info.revert_error = None
    THEN /\ s.results[i].ok
         /\ s.results[i].fee # None
         /\ s.results[i].fee[1].gas_consumed = s.vm[i].info.l1_gas
    ELSE /\ ~s.results[i].ok
         /\ s.results[i].fee = None
         /\ s.results[i].error # "none"

\* C36: simulate and estimate_fee return one result per input transaction in
\* input order, estimate_fee giving an error for a reverted or failed
\* transaction and the fee for a success that did not revert; the call leaves
\* the recorded transactions, the statistics, the declared classes, the
\* block context and the ledger state as they were, so what follows finds the
\* executor as if the simulation had not happened.
C36_ReadOnly ==
    /\ [](sim_last # None =>
            LET s == sim_last[1]
            IN  /\ Len(s.results) = Len(s.transactions)
                /\ \A i \in 1..Len(s.transactions) : SimulatedResult(s, i))
    /\ [][sim_last' # None =>
            UNCHANGED <<transactions, stats, declared_classes, block_context, ledger,
                        exec_last>>]_vars

\* A successful transaction simulated after an execution that recorded one
\* and applied it to the ledger state.
C36_Witness ==
    /\ sim_last # None
    /\ sim_last[1].op = "simulate"
    /\ Len(sim_last[1].transactions) = 1
    /\ sim_last[1].vm[1].ok
    /\ sim_last[1].results[1].result.kind = "Success"
    /\ Len(transactions) = 1
    /\ Len(ledger) = 1
    /\ stats # StatsDefault

\* estimate_fee of a reverted and a successful transaction: an error and a
\* fee, in that order.
C36_WitnessEstimateFee ==
    /\ sim_last # None
    /\ sim_last[1].op = "estimate_fee"
    /\ Len(sim_last[1].transactions) = 2
    /\ sim_last[1].vm[1].ok
    /\ sim_last[1].vm[1].info.revert_error # None
    /\ sim_last[1].vm[2].ok
    /\ sim_last[1].vm[2].info.revert_error = None
    /\ sim_last[1].results[1].error = "TransactionReverted"
    /\ sim_last[1].results[2].ok

====
